---- MODULE Spec2Model ----
(***************************************************************************)
(* The request pipeline of the Enterprise API client: BaseAPI.authenticate,*)
(* BaseAPI.execute and BaseAPI.requestCount of                             *)
(* src/enterprise/api/base_api.ts, with the process-wide token slot and    *)
(* the rate window shared by every instance.                               *)
(*                                                                         *)
(* Each execute call is a process whose position (pc) is the await it is   *)
(* suspended on; one action is the code that runs from one await to the    *)
(* next.  The authentication endpoint, the Enterprise API and the clock    *)
(* are the environment: their answers are drawn from small sets.           *)
(***************************************************************************)
EXTENDS Integers, Sequences, FiniteSets, Bags, TLC

(* ------------------------------ bounds --------------------------------- *)

\* execute calls made by the process
NumCalls == 2

\* clock advances (Tick, Lapse) in one behaviour
MaxClockSteps == 2

\* pages the remote service serves to one call of a list method
MaxPages == 3

(* -------------------------- program constants -------------------------- *)

requestLimit == 250

\* seconds an entry of the rate window lives
stdTTL == 60

\* the backoff pause of execute, in milliseconds
sleepMs == 100

\* what execute subtracts from requestLimit in its rate check
backoffMargin == 5

baseUrl == "https://web-api.starlink.com"

(* ------------------------------ values --------------------------------- *)

Calls == 1 .. NumCalls

\* the client and model instances of the process; an instance is named by the
\* credential pair (client_id, client_secret) it was constructed with
Insts == {"A", "B"}

\* an optional string that is absent
Undefined == "undefined"

\* the content of an access token names the credentials it was issued to and
\* the exchange that obtained it (the n-th authenticate of call c), so every
\* exchange yields a token of its own; MissingAccess is an absent access_token
MissingAccess == <<"", 0, 0>>

\* BaseAPI.token when no token is cached
NoToken == [token_type |-> "", access_token |-> MissingAccess]

Token(i, c, n) == [token_type |-> "Bearer", access_token |-> <<i, c, n>>]

\* the request descriptors the callers pass to execute
Requests ==
    { [method |-> "GET", endpoint |-> "/accounts", params |-> {<<"page", 0>>},
       payload |-> Undefined],
      [method |-> "POST", endpoint |-> "/query", params |-> {},
       payload |-> "q"] }

NoRequest == [method |-> "", endpoint |-> "", params |-> {}, payload |-> Undefined]

\* the statuses the Enterprise API answers with
Statuses == {200, 401, 500}

StatusText(s) ==
    IF s = 200 THEN "OK"
    ELSE IF s = 401 THEN "Unauthorized"
    ELSE "Internal Server Error"

\* response.ok of the fetch API
Ok(s) == s >= 200 /\ s <= 299

\* JavaScript truthiness of an access_token field
Truthy(a) == a # MissingAccess

VARIABLES
    token,       \* BaseAPI.token, the process-wide token slot
    cache,       \* BaseAPI.cache, the rate window: a set of [key, expires]
    now,         \* Date.now(), in milliseconds
    pc,          \* per call: the await it is suspended on
    call,        \* per call: the locals of execute and authenticate
    earlier,     \* entries of the rate window set before the calls of the model
    nAuth,       \* per call: the authenticate invocations it made
    sent,        \* per call: the HTTP calls it dispatched, in order, each with
                 \* the authenticate invocations made before it (auths) and
                 \* the token slot it was built from (slot)
    outcome,     \* per call: what execute returned or threw
    recorded,    \* bag of the dates of the cache.set calls still within the TTL
    disturbed,   \* per call: another call wrote the token slot while it ran
    clockSteps,  \* clock advances taken
    caller,      \* the model method (list method or relationship operation)
                 \* that awaits execute: its locals and what it returned
    fetched,     \* the records the remote service holds of one kind and the
                 \* objects the fetch methods of Account made of them
    grpc,        \* GRPCApi: the timeout of the instance, the clock and, per
                 \* handle call, its controller, its timer and how it ended
    line,        \* a ServiceLine: its record, its three flags, the record the
                 \* remote service holds and the save call in progress
    config,      \* a RouterConfig: its record and the save call in progress
    account      \* an Account: its record and the update-default-router-config
                 \* call in progress

vars == <<token, cache, earlier, now, pc, call, nAuth, sent, outcome, recorded,
          disturbed, clockSteps, caller, fetched, grpc,
          line, config, account>>

\* the state of BaseAPI, of its execute calls and of the method awaiting them
executeVars ==
    <<token, cache, earlier, now, pc, call, nAuth, sent, outcome, recorded,
      disturbed, clockSteps, caller>>

\* the state of the objects the calls of execute do not touch
others == <<fetched, grpc, line, config, account>>

(* ---------------------------- rate window ------------------------------ *)

\* the key execute builds for the rate window
CacheKey(r, date) ==
    [date |-> date, endpoint |-> r.endpoint, method |-> r.method,
     params |-> r.params, payload |-> r.payload]

\* Cache.set: a keyed store, an equal key replaces the entry; the entry lives
\* stdTTL seconds from the moment it is set
CacheSet(entries, key, t) ==
    {e \in entries : e.key # key} \cup {[key |-> key, expires |-> t + stdTTL * 1000]}

\* the entries still alive at time t
CacheExpire(entries, t) == {e \in entries : e.expires > t}

\* Cache.keys
CacheKeys(entries) == {e.key : e \in entries}

\* The entries set by the requests the process made before the calls of the
\* model are kept as their number: they were set at time 0 with keys of their
\* own, so they expire together and no later key replaces one of them.
EarlierAlive(n, t) == IF stdTTL * 1000 > t THEN n ELSE 0

\* BaseAPI.requestCount
requestCount == earlier + Cardinality(CacheKeys(cache))

\* the dates of the cache.set calls that are less than stdTTL seconds old
BagExpire(b, t) ==
    LET live == {d \in DOMAIN b : d + stdTTL * 1000 > t}
    IN  [d \in live |-> b[d]]

(* ------------------------------ requests ------------------------------- *)

\* the authorization header execute builds from the slot
AuthHeader(t) ==
    IF t = NoToken
    THEN <<"undefined", <<"undefined", 0, 0>>>>
    ELSE <<t.token_type, t.access_token>>

\* URLSearchParams of the params: every value coerced to a string
QueryString(params) == {<<p[1], ToString(p[2])>> : p \in params}

Url(r) == <<baseUrl, r.endpoint, QueryString(r.params)>>

\* variant: only a POST carries a body
JsonBodyPostOnly(r) ==
    IF r.method = "POST" THEN r.payload ELSE Undefined

\* the body of the dispatched request
JsonBody(r) ==
    IF r.method \in {"PATCH", "POST", "PUT"} THEN r.payload ELSE Undefined

\* BaseAPI.delete, get, post and put: the arguments each passes to execute
delete(endpoint, params) ==
    [method |-> "DELETE", endpoint |-> endpoint, params |-> params,
     payload |-> Undefined]

get(endpoint, params) ==
    [method |-> "GET", endpoint |-> endpoint, params |-> params,
     payload |-> Undefined]

post(endpoint, payload) ==
    [method |-> "POST", endpoint |-> endpoint, params |-> {}, payload |-> payload]

put(endpoint, payload) ==
    [method |-> "PUT", endpoint |-> endpoint, params |-> {}, payload |-> payload]

\* the body the Enterprise API answers the k-th dispatch of call c with
Body(c, k) == <<c, k>>

NoBody == <<0, 0>>

NoError == [text |-> "", url |-> <<"", "", {}>>, status |-> 0, statusText |-> ""]

AuthError ==
    [text |-> "Could not authenticate with API", url |-> <<"", "", {}>>,
     status |-> 0, statusText |-> ""]

HttpError(url, status) ==
    [text |-> "url [status] statusText", url |-> url, status |-> status,
     statusText |-> StatusText(status)]

Returned(body) == [kind |-> "return", body |-> body, error |-> NoError]

Thrown(err) == [kind |-> "throw", body |-> NoBody, error |-> err]

Pending == [kind |-> "none", body |-> NoBody, error |-> NoError]


\* the response of the Enterprise API to a request for url
ApiResponse(url, s) ==
    [url |-> url, status |-> s, statusText |-> StatusText(s), ok |-> Ok(s)]

\* variant: every failure is reported as a failure to authenticate
ErrorOfAuth(response) == AuthError

\* the message of the error execute throws for a failed response
ErrorOf(response) == HttpError(response.url, response.status)

\* the answers of the authentication endpoint to the n-th exchange of call c,
\* made with the credentials of instance i: a refusal, an OK answer without
\* access_token, a token
AuthResponses(i, c, n) ==
    { [ok |-> FALSE, body |-> NoToken],
      [ok |-> TRUE, body |-> [token_type |-> "Bearer", access_token |-> MissingAccess]],
      [ok |-> TRUE, body |-> Token(i, c, n)] }

NoResponse == [ok |-> FALSE, body |-> NoToken]

\* the locals of a call: those of execute (req, is_retry, n, status), those of
\* its last authenticate (response, result, the slot before and after it), the
\* slot when the call began (tok0), whether the call began while the
\* re-authentication of another call was in flight (amid) and the cache.set
\* calls it made (recs)
NoLocals ==
    [inst |-> "A", req |-> NoRequest, is_retry |-> FALSE, phase |-> "",
     response |-> NoResponse, result |-> FALSE, before |-> NoToken,
     after |-> NoToken, n |-> 0, wakeAt |-> 0, status |-> 0, tok0 |-> NoToken,
     recs |-> 0, amid |-> FALSE]

(* --------------------------- the decisions ----------------------------- *)

\* variant: authenticate trusts every OK answer
AuthResultOk(response) == response.ok

\* authenticate: what it returns for the answer of the endpoint
AuthResult(response) == response.ok /\ Truthy(response.body.access_token)

\* variant: authenticate stores the body of every OK answer
SlotAfterAnyOk(response, slot) == IF response.ok THEN response.body ELSE slot

\* variant: authenticate never stores the token
SlotAfterKept(response, slot) == slot

\* authenticate: the token slot after the answer of the endpoint
SlotAfter(response, slot) ==
    IF ~response.ok THEN slot
    ELSE IF Truthy(response.body.access_token) THEN response.body
    ELSE NoToken

\* variant: a token slot per credential pair
NeedsAuthOwn(l) == token = NoToken \/ token.access_token[1] # l.inst

\* variant: execute authenticates before every request
NeedsAuthAlways(l) == TRUE

\* execute: the pre-flight test, !BaseAPI.token, made by the call with locals l
NeedsAuth(l) == token = NoToken

\* variant: the pause begins at the limit itself
MustPauseAtLimit(n) == n >= requestLimit

\* execute: the rate check
MustPause(n) == n >= requestLimit - backoffMargin

\* variant: a retry after every 401
MayRetryAgain(status, is_retry) == status = 401

\* variant: a retry after every failure
MayRetryAny(status, is_retry) == ~is_retry

\* execute: the test that leads to re-authentication and retry
MayRetry(status, is_retry) == status = 401 /\ ~is_retry

(* --------------------------- model methods ----------------------------- *)

\* an options object is a set of <<key, value>>, at most one value per key
Has(o, k) == \E p \in o : p[1] = k

Get(o, k) == (CHOOSE p \in o : p[1] = k)[2]

\* { ...o, k: v }
With(o, k, v) == {p \in o : p[1] # k} \cup {<<k, v>>}

\* o.k ??= d
OrDefault(o, k, d) == IF Has(o, k) THEN o ELSE o \cup {<<k, d>>}

\* The list methods: the verb of their page request, whether fetch-all spreads
\* the caller's options into it, the keys it sets the page index and the page
\* size under, the fixed page size, and the default of the limit option.
\* fetch_router_configs has no limit option and sends no page size.
ListMethods ==
    { [name |-> "fetch_accounts", endpoint |-> "/enterprise/v1/accounts",
       verb |-> "GET", spread |-> TRUE, pageKey |-> "page",
       hasLimit |-> TRUE, limitKey |-> "limit", size |-> 100, limit |-> 50],
      [name |-> "fetch_realtime_data_tracking",
       endpoint |-> "/enterprise/v1/accounts/{accountNumber}/billing-cycles/query",
       verb |-> "POST", spread |-> TRUE, pageKey |-> "pageIndex",
       hasLimit |-> TRUE, limitKey |-> "pageLimit", size |-> 500, limit |-> 500],
      [name |-> "fetch_router_configs",
       endpoint |-> "/enterprise/v1/account/{accountNumber}/routers/configs",
       verb |-> "GET", spread |-> FALSE, pageKey |-> "page",
       hasLimit |-> FALSE, limitKey |-> "", size |-> 0, limit |-> 0],
      [name |-> "fetch_subscriptions",
       endpoint |-> "/enterprise/v1/account/{accountNumber}/subscriptions",
       verb |-> "GET", spread |-> FALSE, pageKey |-> "page",
       hasLimit |-> TRUE, limitKey |-> "limit", size |-> 50, limit |-> 50] }

NoMethod ==
    [name |-> "", endpoint |-> "", verb |-> "", spread |-> FALSE, pageKey |-> "",
     hasLimit |-> FALSE, limitKey |-> "", size |-> 0, limit |-> 0]

\* the options the callers pass: all, page and limit, each given or omitted
CallerOptions ==
    { a \cup b \cup c :
        a \in {{}, {<<"all", TRUE>>}, {<<"all", FALSE>>}},
        b \in {{}, {<<"page", 2>>}},
        c \in {{}, {<<"limit", 10>>}} }

\* variant: all defaults to false
DefaultsSingle(m, o) ==
    LET l == IF m.hasLimit THEN OrDefault(o, "limit", m.limit) ELSE o
    IN  OrDefault(OrDefault(l, "page", 0), "all", FALSE)

\* the first lines of a list method: options.limit ??= ..., options.page ??= 0,
\* options.all ??= true
Defaults(m, o) ==
    LET l == IF m.hasLimit THEN OrDefault(o, "limit", m.limit) ELSE o
    IN  OrDefault(OrDefault(l, "page", 0), "all", TRUE)

\* variant: the single request always asks for page 0
SingleRequestFirst(m, o) ==
    IF m.verb = "GET"
    THEN [method |-> "GET", endpoint |-> m.endpoint, params |-> With(o, "page", 0),
          payload |-> Undefined]
    ELSE [method |-> "POST", endpoint |-> m.endpoint, params |-> {},
          payload |-> With(With(o, "pageIndex", 0), "pageLimit", Get(o, "limit"))]

\* the request of a list method with all = false
SingleRequest(m, o) ==
    IF m.verb = "GET"
    THEN get(m.endpoint, o)
    ELSE post(m.endpoint, With(With(o, "pageIndex", Get(o, "page")),
                               "pageLimit", Get(o, "limit")))

\* the object fetch-all passes for page k
PageObject(m, o, k) ==
    LET base == IF m.spread THEN o ELSE {}
        paged == With(base, m.pageKey, k)
    IN  IF m.hasLimit THEN With(paged, m.limitKey, m.size) ELSE paged

\* variant: the page index is incremented before it is used
PageRequestNext(m, o, k) ==
    IF m.verb = "GET"
    THEN [method |-> "GET", endpoint |-> m.endpoint,
          params |-> PageObject(m, o, k + 1), payload |-> Undefined]
    ELSE [method |-> "POST", endpoint |-> m.endpoint, params |-> {},
          payload |-> PageObject(m, o, k + 1)]

\* the request of fetch-all for page k
PageRequest(m, o, k) ==
    IF m.verb = "GET"
    THEN get(m.endpoint, PageObject(m, o, k))
    ELSE post(m.endpoint, PageObject(m, o, k))

\* what the remote service reads from a request: the object it carries and
\* the page index in it
Carried(m, r) == IF m.verb = "GET" THEN r.params ELSE r.payload

PageIndexOf(m, r) == Get(Carried(m, r), m.pageKey)

\* the sizes of the pages the remote service returns and the totalCount it
\* reports
PageSizes == {37, 100}

TotalCounts == {37, 237}

\* the results of page k when it holds n records
PageResults(k, n) == [j \in 1 .. n |-> <<k, j>>]

\* the bodies the remote service answers the request for page k with; the
\* page that exhausts MaxPages is the last one
PageBodies(k, served) ==
    { [results |-> PageResults(k, n), isLastPage |-> b, totalCount |-> t] :
        n \in PageSizes,
        b \in IF served >= MaxPages THEN {TRUE} ELSE BOOLEAN,
        t \in TotalCounts }

AggregationError ==
    [text |-> "Could not fetch all results", url |-> <<"", "", {}>>,
     status |-> 0, statusText |-> ""]

\* the relationship operations: the verb of their request, the payload or the
\* query parameters they pass to it, whether they update a field of the
\* object after it succeeded and the value they set it to
RelationOps ==
    { [name |-> "Account.add_user_terminal", verb |-> "POST",
       payload |-> Undefined, params |-> {}, sets |-> "",
       updates |-> FALSE],
      [name |-> "Account.remove_service_line", verb |-> "DELETE",
       payload |-> Undefined, params |-> {<<"reasonForCancellation", "r">>}, sets |-> "",
       updates |-> FALSE],
      [name |-> "Account.remove_user_terminal", verb |-> "DELETE",
       payload |-> Undefined, params |-> {}, sets |-> "",
       updates |-> FALSE],
      [name |-> "ServiceLine.add_terminal", verb |-> "POST",
       payload |-> Undefined, params |-> {}, sets |-> "",
       updates |-> FALSE],
      [name |-> "ServiceLine.remove_terminal", verb |-> "DELETE",
       payload |-> Undefined, params |-> {}, sets |-> "",
       updates |-> FALSE],
      [name |-> "UserTerminal.add_to_service_line", verb |-> "POST",
       payload |-> Undefined, params |-> {}, sets |-> "serviceLineNumber",
       updates |-> TRUE],
      [name |-> "UserTerminal.remove_from_service_line", verb |-> "DELETE",
       payload |-> Undefined, params |-> {}, sets |-> "null",
       updates |-> TRUE],
      [name |-> "Router.assign_config", verb |-> "PUT",
       payload |-> "configId", params |-> {}, sets |-> "configId",
       updates |-> TRUE],
      [name |-> "Router.remove_config", verb |-> "DELETE",
       payload |-> Undefined, params |-> {}, sets |-> "",
       updates |-> FALSE] }

NoOp ==
    [name |-> "", verb |-> "", payload |-> Undefined, params |-> {},
     sets |-> "", updates |-> FALSE]

\* the value the field held before the operation
Previous == "previous"

\* variant: the field is written before the request is awaited
LocalAfterEager(op, local, ok) == IF op.updates THEN op.sets ELSE local

\* variant: an operation that keeps no field clears it when it succeeds
LocalAfterCleared(op, local, ok) ==
    IF ~ok THEN local ELSE IF op.updates THEN op.sets ELSE "null"

\* the field of the object after the operation: written after the awaited
\* request returned, left alone when it threw
LocalAfter(op, local, ok) == IF ok /\ op.updates THEN op.sets ELSE local

\* the request of a relationship operation; its endpoint is written as the
\* name of the operation
RelationRequest(op) ==
    IF op.verb = "POST" THEN post(op.name, op.payload)
    ELSE IF op.verb = "PUT" THEN put(op.name, op.payload)
    ELSE delete(op.name, op.params)

\* the model method before it is called
NoCaller ==
    [pc |-> "idle", kind |-> "", m |-> NoMethod, op |-> NoOp, given |-> {},
     options |-> {}, page |-> 0, results |-> <<>>, requests |-> <<>>,
     bodies |-> <<>>, updated |-> FALSE, local |-> "",
     returned |-> [kind |-> "none", results |-> <<>>, flag |-> FALSE,
                   error |-> NoError]]

\* the execute call the model method awaits
Slot == CHOOSE c \in Calls : \A d \in Calls : c <= d

(* ------------------------------- Init ---------------------------------- *)

\* The requests the process made in the last minute before the calls of the
\* model: none, one less than the rate check lets pass without a pause, or one
\* less than requestLimit.
EarlierCounts == {0, requestLimit - backoffMargin - 1, requestLimit - 1}

\* no record fetched
NoFetched ==
    [kind |-> "", served |-> <<>>, single |-> <<>>,
     page |-> [called |-> FALSE, thrown |-> FALSE, items |-> <<>>],
     all |-> [called |-> FALSE, thrown |-> FALSE, items |-> <<>>]]

\* a timeout argument: left undefined, or a number of milliseconds
NoTimeout == [defined |-> FALSE, ms |-> 0]

Ms(n) == [defined |-> TRUE, ms |-> n]

\* a handle call that was not made
NoHandle ==
    [pc |-> "idle", timeout |-> NoTimeout, started |-> 0, aborted |-> FALSE,
     timer |-> "none", due |-> 0, ended |-> 0]

NoGrpc == [timeout |-> NoTimeout, clock |-> 0, calls |-> <<>>]

\* the fields save writes, in the order it tests their flags, each with the
\* last segment of the URL of its PUT
Fields == <<"nickname", "product", "public-ip">>

\* the field of the record each of them is
RecordKey(f) ==
    IF f = "nickname" THEN "nickname"
    ELSE IF f = "product" THEN "productReferenceId"
    ELSE "publicIp"

\* the content of a service line as the remote service sends it
Content(nickname, product, publicIp, active) ==
    [nickname |-> nickname, productReferenceId |-> product,
     publicIp |-> publicIp, active |-> active,
     startDate |-> <<"string", 1>>, endDate |-> <<"null", 0>>]

\* no response received: the response local of save while it is undefined
NoContent == Content("", "", FALSE, FALSE)

\* a save call that was not made: where it is suspended, its response local,
\* the value of the PUT in flight, what it returned; and of its history the
\* PUTs it issued, whether a flag was set when it was called, the field it
\* failed at, whether a setter ran while it was suspended and whether it
\* replaced the record
NoSave ==
    [pc |-> "idle", hasResponse |-> FALSE, response |-> NoContent,
     body |-> NoContent, issued |-> <<>>, returned |-> "none",
     cleanAtCall |-> FALSE, failedAt |-> "", interfered |-> FALSE,
     replaced |-> FALSE]

\* no service line constructed
NoLine ==
    [record |-> NoContent, flags |-> [f \in {} |-> FALSE], server |-> NoContent,
     save |-> NoSave, fresh |-> FALSE]

\* no RouterConfig constructed: its record, where its save is suspended, the
\* payload and the response of its PUT and what it returned
NoConfig ==
    [record |-> {}, pc |-> "idle", body |-> {}, response |-> {},
     returned |-> "none"]

\* the record of the account; no update-default-router-config call yet
NoAccount ==
    [record |-> {<<"accountNumber", <<"string", 100>>>>,
                 <<"defaultRouterConfigId", <<"string", 0>>>>},
     pc |-> "idle", asked |-> <<"string", 0>>, before |-> {},
     results |-> <<>>, returned |-> "none"]

InitExecute ==
    /\ token = NoToken
    /\ cache = {}
    /\ earlier \in EarlierCounts
    /\ recorded = IF earlier = 0 THEN EmptyBag ELSE [d \in {0} |-> earlier]
    /\ now = 0
    /\ pc = [c \in Calls |-> "idle"]
    /\ call = [c \in Calls |-> NoLocals]
    /\ nAuth = [c \in Calls |-> 0]
    /\ sent = [c \in Calls |-> <<>>]
    /\ outcome = [c \in Calls |-> Pending]
    /\ disturbed = [c \in Calls |-> FALSE]
    /\ clockSteps = 0
    /\ caller = NoCaller

Init ==
    /\ InitExecute
    /\ fetched = NoFetched
    /\ grpc = NoGrpc
    /\ line = NoLine
    /\ config = NoConfig
    /\ account = NoAccount

(* ------------------------------ execute -------------------------------- *)

\* execute, from its entry to its first await: with no token it calls
\* authenticate, otherwise it calls requestCount
Enter(c, l) ==
    IF NeedsAuth(l)
    THEN /\ pc' = [pc EXCEPT ![c] = "auth"]
         /\ call' = [call EXCEPT ![c] = [l EXCEPT !.phase = "pre"]]
         /\ nAuth' = [nAuth EXCEPT ![c] = @ + 1]
    ELSE /\ pc' = [pc EXCEPT ![c] = "count"]
         /\ call' = [call EXCEPT ![c] = [l EXCEPT !.n = requestCount]]
         /\ nAuth' = nAuth

\* an instance calls execute; the calls are numbered in the order they begin
Begin(c) ==
    /\ pc[c] = "idle"
    /\ \A d \in Calls : d < c => pc[d] # "idle"
    /\ \E i \in Insts, r \in Requests :
          Enter(c, [NoLocals EXCEPT
                       !.inst = i, !.req = r, !.tok0 = token,
                       !.amid = \E d \in Calls :
                                   pc[d] = "auth" /\ call[d].phase = "refresh"])
    /\ UNCHANGED <<token, cache, earlier, now, sent, outcome, recorded,
                   disturbed, clockSteps,
                   caller, others>>

\* authenticate, from the answer of the authentication endpoint to its return
\* (between the awaits of fetch.post and of response.json authenticate touches
\* no shared state: they are one step)
AuthResponse(c) ==
    /\ pc[c] = "auth"
    /\ \E response \in AuthResponses(call[c].inst, c, nAuth[c]) :
          /\ token' = SlotAfter(response, token)
          /\ call' = [call EXCEPT ![c].response = response,
                                  ![c].result = AuthResult(response),
                                  ![c].before = token,
                                  ![c].after = SlotAfter(response, token)]
          /\ disturbed' = [d \in Calls |->
                              \/ disturbed[d]
                              \/ /\ d # c
                                 /\ pc[d] \notin {"idle", "done"}
                                 /\ SlotAfter(response, token) # token]
    /\ pc' = [pc EXCEPT ![c] = "auth_ret"]
    /\ UNCHANGED <<cache, earlier, now, nAuth, sent, outcome, recorded,
                   clockSteps,
                   caller, others>>

\* execute resumes after the pre-flight authenticate
PreflightReturn(c) ==
    /\ pc[c] = "auth_ret"
    /\ call[c].phase = "pre"
    /\ IF call[c].result
       THEN /\ pc' = [pc EXCEPT ![c] = "count"]
            /\ call' = [call EXCEPT ![c].n = requestCount]
            /\ outcome' = outcome
       ELSE /\ pc' = [pc EXCEPT ![c] = "done"]
            /\ call' = call
            /\ outcome' = [outcome EXCEPT ![c] = Thrown(AuthError)]
    /\ UNCHANGED <<token, cache, earlier, now, nAuth, sent, recorded, disturbed,
                   clockSteps,
                   caller, others>>

\* execute resumes after the authenticate that follows a 401: it calls itself
\* with is_retry, or throws the error of the 401 response
RefreshReturn(c) ==
    /\ pc[c] = "auth_ret"
    /\ call[c].phase = "refresh"
    /\ IF call[c].result
       THEN /\ Enter(c, [call[c] EXCEPT !.is_retry = TRUE])
            /\ outcome' = outcome
       ELSE /\ pc' = [pc EXCEPT ![c] = "done"]
            /\ call' = call
            /\ nAuth' = nAuth
            /\ outcome' = [outcome EXCEPT ![c] =
                  Thrown(ErrorOf(ApiResponse(Url(call[c].req), call[c].status)))]
    /\ UNCHANGED <<token, cache, earlier, now, sent, recorded, disturbed,
                   clockSteps,
                   caller, others>>

\* variant: a hard gate, no entry is set once the window holds requestLimit
RecordCapped(c, t) ==
    IF BagCardinality(BagExpire(recorded, t)) >= requestLimit
    THEN /\ cache' = CacheExpire(cache, t)
         /\ earlier' = EarlierAlive(earlier, t)
         /\ recorded' = BagExpire(recorded, t)
         /\ now' = t
    ELSE /\ cache' = CacheSet(CacheExpire(cache, t), CacheKey(call[c].req, t), t)
         /\ earlier' = EarlierAlive(earlier, t)
         /\ recorded' = BagExpire(recorded, t) (+) SetToBag({t})
         /\ now' = t

\* cache.set of the request of call c at time t
Record(c, t) ==
    /\ cache' = CacheSet(CacheExpire(cache, t), CacheKey(call[c].req, t), t)
    /\ earlier' = EarlierAlive(earlier, t)
    /\ recorded' = BagExpire(recorded, t) (+) SetToBag({t})
    /\ now' = t

\* execute resumes with the count: it pauses or records the request
CountReturn(c) ==
    /\ pc[c] = "count"
    /\ IF MustPause(call[c].n)
       THEN /\ pc' = [pc EXCEPT ![c] = "sleep"]
            /\ call' = [call EXCEPT ![c].wakeAt = now + sleepMs]
            /\ UNCHANGED <<cache, earlier, recorded, now>>
       ELSE /\ pc' = [pc EXCEPT ![c] = "set"]
            /\ call' = [call EXCEPT ![c].recs = @ + 1, ![c].wakeAt = 0]
            /\ Record(c, now)
    /\ UNCHANGED <<token, nAuth, sent, outcome, disturbed, clockSteps,
                   caller, others>>

\* the pause is over, sleepMs or more after it began: execute records
SleepReturn(c) ==
    /\ pc[c] = "sleep"
    /\ Record(c, IF now < call[c].wakeAt THEN call[c].wakeAt ELSE now)
    /\ pc' = [pc EXCEPT ![c] = "set"]
    /\ call' = [call EXCEPT ![c].recs = @ + 1]
    /\ UNCHANGED <<token, nAuth, sent, outcome, disturbed, clockSteps,
                   caller, others>>

\* execute resumes after cache.set: it builds the headers and dispatches
Dispatch(c) ==
    /\ pc[c] = "set"
    /\ sent' = [sent EXCEPT ![c] = Append(@,
                   [url |-> Url(call[c].req), method |-> call[c].req.method,
                    json |-> JsonBody(call[c].req),
                    authorization |-> AuthHeader(token),
                    retry |-> call[c].is_retry, auths |-> nAuth[c],
                    slot |-> token, disturbed |-> disturbed[c],
                    status |-> 0])]
    /\ pc' = [pc EXCEPT ![c] = "fetch"]
    /\ UNCHANGED <<token, cache, earlier, now, call, nAuth, outcome, recorded,
                   disturbed, clockSteps,
                   caller, others>>

\* the Enterprise API answers: execute returns the body, re-authenticates or
\* throws
Response(c) ==
    /\ pc[c] = "fetch"
    /\ \E s \in Statuses :
          LET response == ApiResponse(sent[c][Len(sent[c])].url, s)
          IN  /\ sent' = [sent EXCEPT ![c][Len(sent[c])].status = s]
              /\ IF response.ok
                 THEN /\ pc' = [pc EXCEPT ![c] = "done"]
                      /\ call' = [call EXCEPT ![c].status = s]
                      /\ nAuth' = nAuth
                      /\ outcome' = [outcome EXCEPT ![c] =
                                        Returned(Body(c, Len(sent[c])))]
                 ELSE IF MayRetry(response.status, call[c].is_retry)
                 THEN /\ pc' = [pc EXCEPT ![c] = "auth"]
                      /\ call' = [call EXCEPT ![c].status = s,
                                              ![c].phase = "refresh"]
                      /\ nAuth' = [nAuth EXCEPT ![c] = @ + 1]
                      /\ outcome' = outcome
                 ELSE /\ pc' = [pc EXCEPT ![c] = "done"]
                      /\ call' = [call EXCEPT ![c].status = s]
                      /\ nAuth' = nAuth
                      /\ outcome' = [outcome EXCEPT ![c] = Thrown(ErrorOf(response))]
    /\ UNCHANGED <<token, cache, earlier, now, recorded, disturbed, clockSteps,
                   caller, others>>

(* --------------------------- model methods ----------------------------- *)

\* the model method calls get, post, put or delete with request r and awaits
\* the execute call
Call(r) ==
    /\ Enter(Slot, [NoLocals EXCEPT !.inst = "A", !.req = r, !.tok0 = token])
    /\ sent' = [sent EXCEPT ![Slot] = <<>>]
    /\ outcome' = [outcome EXCEPT ![Slot] = Pending]

Returns(results, flag) ==
    [kind |-> "return", results |-> results, flag |-> flag, error |-> NoError]

Throws(err) ==
    [kind |-> "throw", results |-> <<>>, flag |-> FALSE, error |-> err]

\* variant: the results are returned without the comparison
AggregateUnchecked(results, body) == Returns(results, FALSE)

\* fetch-all after the last page: results.length !== totalCount throws
Aggregate(results, body) ==
    IF Len(results) # body.totalCount
    THEN Throws(AggregationError)
    ELSE Returns(results, FALSE)

\* variant: a failed page ends the loop and what was fetched is returned
OnErrorPartial(o, results) == Returns(results, FALSE)

\* a list method has no catch block: the error of execute leaves it
OnError(o, results) == Throws(o.error)

\* variant: fetch-all stops after two pages
MorePagesCapped(body, page) == ~body.isLastPage /\ page < 2

\* do ... while (!response.content.isLastPage), after page pages
MorePages(body, page) == ~body.isLastPage

\* variant: the operation reports success whatever happened
SucceededAlways(o) == TRUE

\* a relationship operation: return true after the await, false from catch
Succeeded(o) == o.kind = "return"

\* a list method, from its entry to its first request: the only page with
\* all = false, page 0 otherwise
ListCall ==
    /\ caller.pc = "idle"
    /\ pc[Slot] = "idle"
    /\ \E m \in ListMethods, given \in CallerOptions :
          LET o == Defaults(m, given)
              r == IF ~Get(o, "all") THEN SingleRequest(m, o)
                   ELSE PageRequest(m, o, 0)
          IN  /\ caller' = [NoCaller EXCEPT
                               !.pc = "wait", !.kind = "list", !.m = m,
                               !.given = given, !.options = o,
                               !.page = IF Get(o, "all") THEN 1 ELSE 0,
                               !.requests = <<r>>]
              /\ Call(r)
    /\ UNCHANGED <<token, cache, earlier, now, recorded, disturbed, clockSteps,
                   others>>

\* a list method resumes after a page request: the error of execute leaves
\* the method; with all = false the page is returned; otherwise the page is
\* appended and the next page requested, or, after the last page, the length
\* is compared with totalCount
ListResume ==
    /\ caller.pc = "wait"
    /\ caller.kind = "list"
    /\ pc[Slot] = "done"
    /\ IF outcome[Slot].kind = "throw"
       THEN /\ caller' = [caller EXCEPT
                             !.pc = "done",
                             !.returned = OnError(outcome[Slot], caller.results)]
            /\ UNCHANGED <<pc, call, nAuth, sent, outcome>>
       ELSE \E body \in PageBodies(
                           PageIndexOf(caller.m, caller.requests[Len(caller.requests)]),
                           Len(caller.requests)) :
               LET results == caller.results \o body.results
                   r == PageRequest(caller.m, caller.options, caller.page)
               IN  IF ~Get(caller.options, "all")
                   THEN /\ caller' = [caller EXCEPT
                                         !.pc = "done",
                                         !.bodies = Append(@, body),
                                         !.returned = Returns(body.results, FALSE)]
                        /\ UNCHANGED <<pc, call, nAuth, sent, outcome>>
                   ELSE IF MorePages(body, caller.page)
                   THEN /\ caller' = [caller EXCEPT
                                         !.results = results,
                                         !.bodies = Append(@, body),
                                         !.page = @ + 1,
                                         !.requests = Append(@, r)]
                        /\ Call(r)
                   ELSE /\ caller' = [caller EXCEPT
                                         !.pc = "done",
                                         !.results = results,
                                         !.bodies = Append(@, body),
                                         !.returned = Aggregate(results, body)]
                        /\ UNCHANGED <<pc, call, nAuth, sent, outcome>>
    /\ UNCHANGED <<token, cache, earlier, now, recorded, disturbed, clockSteps,
                   others>>

\* a relationship operation, from its entry to its request
RelationCall ==
    /\ caller.pc = "idle"
    /\ pc[Slot] = "idle"
    /\ \E op \in RelationOps :
          /\ caller' = [NoCaller EXCEPT
                           !.pc = "wait", !.kind = "relation", !.op = op,
                           !.local = Previous,
                           !.requests = <<RelationRequest(op)>>]
          /\ Call(RelationRequest(op))
    /\ UNCHANGED <<token, cache, earlier, now, recorded, disturbed, clockSteps,
                   others>>

\* a relationship operation resumes: true after the request returned, false
\* from the catch block
RelationResume ==
    /\ caller.pc = "wait"
    /\ caller.kind = "relation"
    /\ pc[Slot] = "done"
    /\ caller' = [caller EXCEPT
                     !.pc = "done",
                     !.updated = Succeeded(outcome[Slot]) /\ caller.op.updates,
                     !.local = LocalAfter(caller.op, caller.local,
                                          Succeeded(outcome[Slot])),
                     !.returned = Returns(<<>>, Succeeded(outcome[Slot]))]
    /\ UNCHANGED <<token, cache, earlier, now, pc, call, nAuth, sent, outcome,
                   recorded, disturbed, clockSteps, others>>

(* ------------------------------- clock --------------------------------- *)

\* d milliseconds pass; the entries whose TTL is over leave the rate window
Advance(d) ==
    /\ clockSteps < MaxClockSteps
    /\ clockSteps' = clockSteps + 1
    /\ now' = now + d
    /\ cache' = CacheExpire(cache, now + d)
    /\ earlier' = EarlierAlive(earlier, now + d)
    /\ recorded' = BagExpire(recorded, now + d)
    /\ UNCHANGED <<token, pc, call, nAuth, sent, outcome, disturbed,
                   caller, others>>

\* a millisecond passes
Tick ==
    Advance(1)

\* the TTL of the rate window passes
Lapse ==
    Advance(stdTTL * 1000)

(* --------------------------- specifications ---------------------------- *)

\* a call begins while no other call is in flight
BeginAlone(c) ==
    /\ \A d \in Calls : pc[d] \in {"idle", "done"}
    /\ Begin(c)

Next ==
    \/ \E c \in Calls : Begin(c)
    \/ \E c \in Calls : AuthResponse(c)
    \/ \E c \in Calls : PreflightReturn(c)
    \/ \E c \in Calls : RefreshReturn(c)
    \/ \E c \in Calls : CountReturn(c)
    \/ \E c \in Calls : SleepReturn(c)
    \/ \E c \in Calls : Dispatch(c)
    \/ \E c \in Calls : Response(c)

\* the calls of the process under every interleaving; time passes where a
\* call waits for it
Spec == Init /\ [][Next]_vars

NextTimed ==
    \/ \E c \in Calls : BeginAlone(c)
    \/ \E c \in Calls : AuthResponse(c)
    \/ \E c \in Calls : PreflightReturn(c)
    \/ \E c \in Calls : RefreshReturn(c)
    \/ \E c \in Calls : CountReturn(c)
    \/ \E c \in Calls : SleepReturn(c)
    \/ \E c \in Calls : Dispatch(c)
    \/ \E c \in Calls : Response(c)
    \/ Tick
    \/ Lapse

\* the calls of the process made one after the other, with the clock running
SpecTimed == Init /\ [][NextTimed]_vars

NextModels ==
    \/ ListCall
    \/ ListResume
    \/ RelationCall
    \/ RelationResume
    \/ \E c \in Calls : AuthResponse(c)
    \/ \E c \in Calls : PreflightReturn(c)
    \/ \E c \in Calls : RefreshReturn(c)
    \/ \E c \in Calls : CountReturn(c)
    \/ \E c \in Calls : SleepReturn(c)
    \/ \E c \in Calls : Dispatch(c)
    \/ \E c \in Calls : Response(c)

\* one call of a list method or of a relationship operation, with the execute
\* calls it awaits
SpecModels == Init /\ [][NextModels]_vars

\* the model methods when the event loop and the remote services take their
\* steps: every continuation that is ready runs and every request in flight
\* is answered
SpecModelsFair ==
    /\ SpecModels
    /\ WF_vars(\/ ListResume
               \/ RelationResume
               \/ \E c \in Calls : AuthResponse(c)
               \/ \E c \in Calls : PreflightReturn(c)
               \/ \E c \in Calls : RefreshReturn(c)
               \/ \E c \in Calls : CountReturn(c)
               \/ \E c \in Calls : SleepReturn(c)
               \/ \E c \in Calls : Dispatch(c)
               \/ \E c \in Calls : Response(c))

(* --------------------- single-item and list fetches -------------------- *)

\* values of the fields of a record: null, a string (an ISO date among them)
\* and the Date made of one
Null == <<"null", 0>>

String(n) == <<"string", n>>

\* new Date(iso): the time value of the date the string denotes
NewDate(iso) == <<"Date", iso[2] * 86400>>

\* the texts the remote service sends as routerConfigJson; the last is not
\* JSON
JsonTexts == {"{}", "{\"a\":1}", "{"}

SyntaxError == {<<"SyntaxError", Null>>}

\* JSON.parse
JSONparse(text) ==
    IF text = "{}" THEN {}
    ELSE IF text = "{\"a\":1}" THEN {<<"a", String(1)>>}
    ELSE SyntaxError

\* Account.accountNumber
accountNumber == String(100)

\* record.k !== null ? new Date(record.k) : null
DateOrNull(record, k) ==
    IF Get(record, k) # Null THEN NewDate(Get(record, k)) ELSE Null

Without(o, k) == {p \in o : p[1] # k}

\* the mapping of fetch_service_line
ServiceLineSingle(record) ==
    With(With(With(record, "accountNumber", accountNumber),
              "startDate", DateOrNull(record, "startDate")),
         "endDate", DateOrNull(record, "endDate"))

\* the mapping of fetch_service_lines with all = false
ServiceLinePage(record) ==
    With(With(With(record, "accountNumber", accountNumber),
              "startDate", DateOrNull(record, "startDate")),
         "endDate", DateOrNull(record, "endDate"))

\* variant: fetch-all leaves the dates as the strings it received
ServiceLineAllRaw(record) ==
    With(record, "accountNumber", accountNumber)

\* the mapping of fetch_service_lines with all = true
ServiceLineAll(record) ==
    With(With(With(record, "accountNumber", accountNumber),
              "startDate", DateOrNull(record, "startDate")),
         "endDate", DateOrNull(record, "endDate"))

\* the mapping of fetch_router_config
RouterConfigSingle(record) ==
    With(Without(record, "routerConfigJson"),
         "routerConfig", JSONparse(Get(record, "routerConfigJson")[2]))

\* the mapping of fetch_router_configs with all = false
RouterConfigPage(record) ==
    With(Without(record, "routerConfigJson"),
         "routerConfig", JSONparse(Get(record, "routerConfigJson")[2]))

\* the mapping of fetch_router_configs with all = true
RouterConfigAll(record) ==
    With(Without(record, "routerConfigJson"),
         "routerConfig", JSONparse(Get(record, "routerConfigJson")[2]))

\* Account.transformSubscription
transformSubscription(record) ==
    With(With(With(With(record,
        "startDate", DateOrNull(record, "startDate")),
        "normalizedStartDate", DateOrNull(record, "normalizedStartDate")),
        "endDate", DateOrNull(record, "endDate")),
        "serviceEndDate", DateOrNull(record, "serviceEndDate"))

Kinds == {"address", "router_config", "service_line", "subscription"}

\* what each fetch method makes of a record of the kind
MapSingle(kind, record) ==
    IF kind = "service_line" THEN ServiceLineSingle(record)
    ELSE IF kind = "router_config" THEN RouterConfigSingle(record)
    ELSE IF kind = "subscription" THEN transformSubscription(record)
    ELSE record

MapPage(kind, record) ==
    IF kind = "service_line" THEN ServiceLinePage(record)
    ELSE IF kind = "router_config" THEN RouterConfigPage(record)
    ELSE IF kind = "subscription" THEN transformSubscription(record)
    ELSE record

MapAll(kind, record) ==
    IF kind = "service_line" THEN ServiceLineAll(record)
    ELSE IF kind = "router_config" THEN RouterConfigAll(record)
    ELSE IF kind = "subscription" THEN transformSubscription(record)
    ELSE record

\* the mapping threw: JSON.parse met a text that is not JSON
Threw(kind, object) ==
    kind = "router_config" /\ Get(object, "routerConfig") = SyntaxError

DateValues == {Null, String(1), String(2)}

\* the records the remote service holds, by kind; id is the reference of the
\* record
ServedRecords(kind, id) ==
    IF kind = "service_line"
    THEN { {<<"serviceLineNumber", String(id)>>, <<"startDate", s>>,
            <<"endDate", e>>} : s \in DateValues, e \in DateValues }
    ELSE IF kind = "router_config"
    THEN { {<<"configId", String(id)>>, <<"routerConfigJson", <<"string", t>>>>} :
              t \in JsonTexts }
    ELSE IF kind = "subscription"
    THEN { {<<"subscriptionReferenceId", String(id)>>, <<"startDate", s>>,
            <<"normalizedStartDate", n>>, <<"endDate", e>>,
            <<"serviceEndDate", Null>>} :
              s \in DateValues, n \in {Null, String(1)}, e \in {Null, String(2)} }
    ELSE { {<<"addressReferenceId", String(id)>>, <<"metadata", m>>} :
              m \in {Null, String(5)} }

\* the objects a list method returns, or none when the mapping of one threw
Mapped(kind, objects) ==
    IF \E i \in 1..Len(objects) : Threw(kind, objects[i])
    THEN [called |-> TRUE, thrown |-> TRUE, items |-> <<>>]
    ELSE [called |-> TRUE, thrown |-> FALSE, items |-> objects]

InitFetch ==
    /\ InitExecute
    /\ earlier = 0
    /\ grpc = NoGrpc
    /\ line = NoLine
    /\ config = NoConfig
    /\ account = NoAccount
    /\ \E kind \in Kinds :
          \E first \in ServedRecords(kind, 1), second \in ServedRecords(kind, 2) :
             fetched = [NoFetched EXCEPT !.kind = kind,
                                         !.served = <<first, second>>]

\* fetch_address, fetch_router_config, fetch_service_line, fetch_subscription
\* of the record with reference i
FetchSingle(i) ==
    /\ i \in 1..Len(fetched.served)
    /\ Len(fetched.single) = i - 1
    /\ fetched' = [fetched EXCEPT
          !.single = Append(@, MapSingle(fetched.kind, fetched.served[i]))]
    /\ UNCHANGED <<executeVars, grpc, line, config, account>>

\* the list method with all = false: the records of the page, mapped
FetchPage ==
    /\ ~fetched.page.called
    /\ fetched' = [fetched EXCEPT
          !.page = Mapped(fetched.kind,
                      [i \in 1..Len(fetched.served) |->
                          MapPage(fetched.kind, fetched.served[i])])]
    /\ UNCHANGED <<executeVars, grpc, line, config, account>>

\* the list method with all = true: the records of every page, mapped
FetchAllPages ==
    /\ ~fetched.all.called
    /\ fetched' = [fetched EXCEPT
          !.all = Mapped(fetched.kind,
                     [i \in 1..Len(fetched.served) |->
                         MapAll(fetched.kind, fetched.served[i])])]
    /\ UNCHANGED <<executeVars, grpc, line, config, account>>

NextFetch ==
    \/ \E i \in 1..2 : FetchSingle(i)
    \/ FetchPage
    \/ FetchAllPages

\* the fetch methods of Account applied to the records of the remote service
SpecFetch == InitFetch /\ [][NextFetch]_vars

(* ------------------------------ GRPCApi -------------------------------- *)

\* the handle calls of the model and the milliseconds it lets pass
NumHandles == 2

MaxElapsed == 3

\* the timeouts given to the constructor and to handle
Timeouts == {NoTimeout, Ms(0), Ms(1), Ms(2)}

\* timeout = this.timeout: the default applies when the argument is undefined
Effective(timeout, instance) == IF timeout.defined THEN timeout ELSE instance

\* variant: a timer is armed for every timeout that is given
ArmedWhenDefined(timeout) == timeout.defined

\* if (timeout): undefined and 0 arm no timer
Armed(timeout) == timeout.defined /\ timeout.ms # 0

InitHandle ==
    /\ InitExecute
    /\ earlier = 0
    /\ fetched = NoFetched
    /\ line = NoLine
    /\ config = NoConfig
    /\ account = NoAccount
    /\ \E instance \in Timeouts : grpc = [NoGrpc EXCEPT !.timeout = instance]

\* handle up to the await of client.handle: the controller is made and the
\* timer armed
Handle(timeout) ==
    /\ Len(grpc.calls) < NumHandles
    /\ LET t == Effective(timeout, grpc.timeout)
       IN  grpc' = [grpc EXCEPT !.calls = Append(@,
              [NoHandle EXCEPT
                  !.pc = "awaiting", !.timeout = t, !.started = grpc.clock,
                  !.timer = IF Armed(t) THEN "pending" ELSE "none",
                  !.due = IF Armed(t) THEN grpc.clock + t.ms ELSE 0])]
    /\ UNCHANGED <<executeVars, fetched, line, config, account>>

\* a timer whose delay has passed
Due(h) == h.timer = "pending" /\ grpc.clock >= h.due

\* a millisecond passes; a timer that is due runs before more time passes
Elapse ==
    /\ grpc.clock < MaxElapsed
    /\ \A i \in 1..Len(grpc.calls) : ~Due(grpc.calls[i])
    /\ grpc' = [grpc EXCEPT !.clock = @ + 1]
    /\ UNCHANGED <<executeVars, fetched, line, config, account>>

\* the timer callback: controller.abort()
TimerFires(i) ==
    /\ i \in 1..Len(grpc.calls)
    /\ Due(grpc.calls[i])
    /\ grpc' = [grpc EXCEPT !.calls[i].timer = "fired",
                            !.calls[i].aborted = TRUE]
    /\ UNCHANGED <<executeVars, fetched, line, config, account>>

\* client.handle resolves: the timer is cleared and the response returned
Responds(i) ==
    /\ i \in 1..Len(grpc.calls)
    /\ grpc.calls[i].pc = "awaiting"
    /\ ~grpc.calls[i].aborted
    /\ grpc' = [grpc EXCEPT
          !.calls[i].pc = "returned",
          !.calls[i].ended = grpc.clock,
          !.calls[i].timer = IF @ = "pending" THEN "cleared" ELSE @]
    /\ UNCHANGED <<executeVars, fetched, line, config, account>>

\* client.handle rejects, with the error of the server or of the channel, or
\* with the AbortError of an aborted signal: handle throws it
Rejects(i) ==
    /\ i \in 1..Len(grpc.calls)
    /\ grpc.calls[i].pc = "awaiting"
    /\ grpc' = [grpc EXCEPT
          !.calls[i].pc = IF grpc.calls[i].aborted THEN "aborted" ELSE "failed",
          !.calls[i].ended = grpc.clock]
    /\ UNCHANGED <<executeVars, fetched, line, config, account>>

NextHandle ==
    \/ \E timeout \in Timeouts : Handle(timeout)
    \/ Elapse
    \/ \E i \in 1..NumHandles : TimerFires(i)
    \/ \E i \in 1..NumHandles : Responds(i)
    \/ \E i \in 1..NumHandles : Rejects(i)

\* the handle calls of a GRPCApi instance, with the clock running
SpecHandle == InitHandle /\ [][NextHandle]_vars

(* ----------------------------- ServiceLine ----------------------------- *)

\* the values the setters are called with
Nicknames == {"A", "B"}

Products == {"P", "Q"}

Values(f) ==
    IF f = "nickname" THEN Nicknames
    ELSE IF f = "product" THEN Products
    ELSE BOOLEAN

FieldSet == {Fields[i] : i \in 1..Len(Fields)}

\* the record save stores: the content of the response with the account
\* number of the instance and the dates converted
SavedRecord(content, ofAccount) ==
    [k \in DOMAIN content \cup {"accountNumber"} |->
        IF k = "accountNumber" THEN ofAccount
        ELSE IF k \in {"startDate", "endDate"}
             THEN (IF content[k] # Null THEN NewDate(content[k]) ELSE Null)
             ELSE content[k]]

\* variant: the setter sets the flag to whether the value differs
FlagAfterSetExact(flag, value, current) == value # current

\* the flag after the setter ran with value while the field held current
FlagAfterSet(flag, value, current) == flag \/ value # current

\* variant: save writes every field after the one it wrote
NextDirtyAny(flags, from) ==
    IF from <= Len(Fields) THEN from ELSE Len(Fields) + 1

\* the first field at or after position from whose flag is set, or one past
\* the last when there is none
NextDirty(flags, from) ==
    IF \E i \in from..Len(Fields) : flags[Fields[i]]
    THEN CHOOSE i \in from..Len(Fields) :
            /\ flags[Fields[i]]
            /\ \A j \in from..(i - 1) : ~flags[Fields[j]]
    ELSE Len(Fields) + 1

Position(f) == CHOOSE i \in 1..Len(Fields) : Fields[i] = f

\* the service line as fetched: its record is the content the remote service
\* held then; the service may have changed another field since
InitSave ==
    /\ InitExecute
    /\ earlier = 0
    /\ fetched = NoFetched
    /\ grpc = NoGrpc
    /\ config = NoConfig
    /\ account = NoAccount
    /\ \E active \in BOOLEAN :
          line = [NoLine EXCEPT
                     !.record = SavedRecord(Content("A", "P", FALSE, TRUE),
                                            accountNumber),
                     !.flags = [f \in FieldSet |-> FALSE],
                     !.server = Content("A", "P", FALSE, active)]

Saving == line.save.pc \in FieldSet

\* the setters of nickname, productReferenceId and publicIp
Set(f, value) ==
    /\ value \in Values(f)
    /\ line' = [line EXCEPT
          !.flags[f] = FlagAfterSet(@, value, line.record[RecordKey(f)]),
          !.record[RecordKey(f)] = value,
          !.save.interfered = @ \/ Saving,
          !.fresh = FALSE]
    /\ UNCHANGED <<executeVars, fetched, grpc, config, account>>

\* save from position from on: the PUT of the next field whose flag is set is
\* issued with the value the record holds, or save returns
Continue(l, from) ==
    LET i == NextDirty(l.flags, from)
    IN  IF i <= Len(Fields)
        THEN [l EXCEPT
                 !.save.pc = Fields[i],
                 !.save.body = Content(l.record.nickname,
                                       l.record.productReferenceId,
                                       l.record.publicIp, FALSE),
                 !.save.issued = Append(@,
                     [field |-> Fields[i], dirty |-> l.flags[Fields[i]]])]
        ELSE IF l.save.hasResponse
        THEN [l EXCEPT
                 !.record = SavedRecord(l.save.response, l.record.accountNumber),
                 !.save.pc = "done", !.save.returned = "true",
                 !.save.replaced = TRUE, !.fresh = TRUE]
        ELSE [l EXCEPT !.save.pc = "done", !.save.returned = "false",
                       !.fresh = TRUE]

\* save is called
SaveCall ==
    /\ ~Saving
    /\ line' = Continue([line EXCEPT
                  !.fresh = FALSE,
                  !.save = [NoSave EXCEPT
                      !.cleanAtCall = \A f \in FieldSet : ~line.flags[f]]], 1)
    /\ UNCHANGED <<executeVars, fetched, grpc, config, account>>

\* the PUT in flight succeeds: the remote service stores the value and answers
\* with the content it holds; save clears the flag and goes on
PutResolves ==
    /\ Saving
    /\ LET f == line.save.pc
           content == [line.server EXCEPT
                          ![RecordKey(f)] = line.save.body[RecordKey(f)]]
       IN  line' = Continue([line EXCEPT
                      !.server = content,
                      !.save.response = content,
                      !.save.hasResponse = TRUE,
                      !.flags[f] = FALSE], Position(f) + 1)
    /\ UNCHANGED <<executeVars, fetched, grpc, config, account>>

\* the PUT in flight fails: put throws and save returns false
PutRejects ==
    /\ Saving
    /\ line' = [line EXCEPT !.save.pc = "done", !.save.returned = "false",
                            !.save.failedAt = line.save.pc,
                            !.fresh = TRUE]
    /\ UNCHANGED <<executeVars, fetched, grpc, config, account>>

NextSave ==
    \/ \E f \in FieldSet : \E value \in Values(f) : Set(f, value)
    \/ SaveCall
    \/ PutResolves
    \/ PutRejects

\* a service line, its setters and its save calls, the setters called at any
\* moment
SpecSave == InitSave /\ [][NextSave]_vars

(* ----------------------------- RouterConfig ---------------------------- *)

\* the values the config setter is called with; the last is an object that
\* refers to itself
ConfigValues == {{}, {<<"a", String(1)>>}, {<<"self", Null>>}}

\* JSON.stringify: the inverse of JSON.parse on what can be serialised, a
\* TypeError on an object that refers to itself
JSONstringify(object) ==
    IF object = {} THEN "{}"
    ELSE IF object = {<<"a", String(1)>>} THEN "{\"a\":1}"
    ELSE "TypeError"

\* variant: the record is assigned before the text is parsed
ConfigAfterUnparsed(record, content) ==
    With(Without(content, "routerConfigJson"),
         "routerConfig", JSONparse(Get(content, "routerConfigJson")[2]))

\* the record after the PUT resolved with content: the content with
\* routerConfig parsed from routerConfigJson and routerConfigJson deleted, or
\* the record as it was when JSON.parse threw
ConfigAfter(record, content) ==
    IF JSONparse(Get(content, "routerConfigJson")[2]) = SyntaxError
    THEN record
    ELSE With(Without(content, "routerConfigJson"),
              "routerConfig", JSONparse(Get(content, "routerConfigJson")[2]))

InitConfig ==
    /\ InitExecute
    /\ earlier = 0
    /\ fetched = NoFetched
    /\ grpc = NoGrpc
    /\ line = NoLine
    /\ account = NoAccount
    /\ \E object \in {o \in ConfigValues : JSONstringify(o) # "TypeError"} :
          config = [NoConfig EXCEPT
                       !.record = {<<"configId", String(1)>>,
                                   <<"nickname", String(1)>>,
                                   <<"routerConfig", object>>}]

\* the setters of nickname and config
ConfigSet(k, value) ==
    /\ config' = [config EXCEPT !.record = With(@, k, value)]
    /\ UNCHANGED <<executeVars, fetched, grpc, line, account>>

\* save is called: the payload is built and the PUT issued, or
\* JSON.stringify throws and the catch block returns false
ConfigSaveCall ==
    /\ config.pc # "put"
    /\ LET text == JSONstringify(Get(config.record, "routerConfig"))
       IN  IF text = "TypeError"
           THEN config' = [config EXCEPT !.pc = "done", !.body = {},
                                         !.response = {},
                                         !.returned = "false"]
           ELSE config' = [config EXCEPT
                    !.pc = "put", !.response = {}, !.returned = "none",
                    !.body = {<<"nickname", Get(config.record, "nickname")>>,
                              <<"routerConfigJson", <<"string", text>>>>}]
    /\ UNCHANGED <<executeVars, fetched, grpc, line, account>>

\* the PUT resolves with the content of the remote service: the nickname it
\* was sent and a routerConfigJson text
ConfigPutResolves(text) ==
    /\ config.pc = "put"
    /\ LET content == {<<"configId", String(1)>>,
                       <<"nickname", Get(config.body, "nickname")>>,
                       <<"routerConfigJson", <<"string", text>>>>}
           after == ConfigAfter(config.record, content)
       IN  config' = [config EXCEPT
              !.pc = "done", !.response = content, !.record = after,
              !.returned =
                 IF JSONparse(text) = SyntaxError THEN "false" ELSE "true"]
    /\ UNCHANGED <<executeVars, fetched, grpc, line, account>>

\* the PUT fails: put throws and the catch block returns false
ConfigPutRejects ==
    /\ config.pc = "put"
    /\ config' = [config EXCEPT !.pc = "done", !.returned = "false"]
    /\ UNCHANGED <<executeVars, fetched, grpc, line, account>>

NextConfig ==
    \/ \E value \in {String(1), String(2)} : ConfigSet("nickname", value)
    \/ \E value \in ConfigValues : ConfigSet("routerConfig", value)
    \/ ConfigSaveCall
    \/ \E text \in JsonTexts : ConfigPutResolves(text)
    \/ ConfigPutRejects

\* a router configuration, its setters and its save calls
SpecConfig == InitConfig /\ [][NextConfig]_vars

(* ------------------ Account.update_default_router_config --------------- *)

\* response.content.results: account records of this account or of another
\* one, with one default configuration or the other
MaxResults == 2

ResultLists ==
    UNION { [1..n ->
               { {<<"accountNumber", String(a)>>,
                  <<"defaultRouterConfigId", String(c)>>} :
                   a \in {100, 200}, c \in {1, 2} }] : n \in 0..MaxResults }

\* variant: the first element of the results, whatever its account
FirstOfAny(results, number) ==
    IF Len(results) = 0 THEN {} ELSE results[1]

\* results.filter(elem => elem.accountNumber === number).shift(), {} for
\* undefined
FirstOf(results, number) ==
    LET matching == {i \in 1..Len(results) :
                        Get(results[i], "accountNumber") = number}
    IN  IF matching = {} THEN {}
        ELSE results[CHOOSE i \in matching : \A j \in matching : i <= j]

InitAccount ==
    /\ InitExecute
    /\ earlier = 0
    /\ fetched = NoFetched
    /\ grpc = NoGrpc
    /\ line = NoLine
    /\ config = NoConfig
    /\ account = NoAccount

\* update_default_router_config(configId) is called and issues the PUT
UpdateDefaultCall(configId) ==
    /\ account.pc # "put"
    /\ account' = [account EXCEPT !.pc = "put", !.asked = configId,
                                  !.before = account.record,
                                  !.results = <<>>, !.returned = "none"]
    /\ UNCHANGED <<executeVars, fetched, grpc, line, config>>

\* the PUT resolves: the record is replaced by the first result of this
\* account, if there is one
UpdateDefaultResolves(results) ==
    /\ account.pc = "put"
    /\ LET found == FirstOf(results, Get(account.record, "accountNumber"))
       IN  account' = [account EXCEPT
              !.pc = "done", !.results = results,
              !.record = IF found # {} THEN found ELSE @,
              !.returned = IF found # {} THEN "true" ELSE "false"]
    /\ UNCHANGED <<executeVars, fetched, grpc, line, config>>

\* the PUT fails: nothing catches what put throws
UpdateDefaultRejects ==
    /\ account.pc = "put"
    /\ account' = [account EXCEPT !.pc = "done", !.returned = "threw"]
    /\ UNCHANGED <<executeVars, fetched, grpc, line, config>>

NextAccount ==
    \/ \E configId \in {String(1), String(2)} : UpdateDefaultCall(configId)
    \/ \E results \in ResultLists : UpdateDefaultResolves(results)
    \/ UpdateDefaultRejects

\* an account and its update-default-router-config calls
SpecAccount == InitAccount /\ [][NextAccount]_vars

(* ------------------------------ properties ----------------------------- *)

\* the k-th HTTP call of call c
Sent(c, k) == sent[c][k]

\* the last HTTP call of call c
LastSent(c) == sent[c][Len(sent[c])]

\* call c is the only call the process has made
Alone(c) == \A d \in Calls \ {c} : pc[d] = "idle"

\* the last token exchange of call c failed: the answer was not OK or carried
\* no access token
ExchangeFailed(c) ==
    ~(call[c].response.ok /\ call[c].response.body.access_token # MissingAccess)

\* C1: a single call that starts with no cached token, gets 401 on its first
\* HTTP call and 200 on the second has run the exchange exactly twice, has
\* dispatched exactly twice and returns the body of the second response.
C1_RetryAfter401 ==
    \A c \in Calls :
        (/\ Alone(c)
         /\ call[c].tok0 = NoToken
         /\ Len(sent[c]) >= 2
         /\ Sent(c, 1).status = 401
         /\ Sent(c, 2).status = 200)
        => /\ pc[c] = "done"
           /\ nAuth[c] = 2
           /\ Len(sent[c]) = 2
           /\ outcome[c] = [kind |-> "return", body |-> <<c, 2>>, error |-> NoError]

C1_Witness ==
    \E c \in Calls :
        /\ Alone(c)
        /\ call[c].tok0 = NoToken
        /\ Len(sent[c]) = 2
        /\ Sent(c, 1).status = 401
        /\ Sent(c, 2).status = 200
        /\ outcome[c].kind = "return"

\* C2: when the HTTP call gets 401 and the exchange that follows fails, execute
\* throws the error that carries the URL, the status and the status text of
\* that 401 response, and makes no further HTTP call.
C2_FailedRefreshThrows ==
    \A c \in Calls :
        (/\ pc[c] = "done"
         /\ call[c].phase = "refresh"
         /\ ExchangeFailed(c))
        => /\ Len(sent[c]) = 1
           /\ Sent(c, 1).status = 401
           /\ outcome[c].kind = "throw"
           /\ outcome[c].error.url = Sent(c, 1).url
           /\ outcome[c].error.status = 401
           /\ outcome[c].error.statusText = "Unauthorized"

C2_Witness ==
    \E c \in Calls :
        /\ pc[c] = "done"
        /\ call[c].phase = "refresh"
        /\ ExchangeFailed(c)
        /\ outcome[c].kind = "throw"
        /\ Len(sent[c]) = 1

\* C3: one call of a public method dispatches at most two HTTP calls, the
\* second one being the only retry; when the retried call fails, with 401 or
\* another failure status, execute throws the error of that response without
\* another exchange.
C3_AtMostOneRetry ==
    \A c \in Calls :
        /\ Len(sent[c]) <= 2
        /\ \A k \in 1 .. Len(sent[c]) : Sent(c, k).retry <=> k = 2
        /\ (Len(sent[c]) = 2 /\ Sent(c, 2).status \notin {0, 200})
           => /\ pc[c] = "done"
              /\ outcome[c].kind = "throw"
              /\ outcome[c].error.url = Sent(c, 2).url
              /\ outcome[c].error.status = Sent(c, 2).status
              /\ nAuth[c] = Sent(c, 2).auths

C3_Witness ==
    \E c \in Calls :
        /\ Len(sent[c]) = 2
        /\ Sent(c, 2).status = 401
        /\ pc[c] = "done"
        /\ outcome[c].kind = "throw"

\* C4: when the HTTP call of call c gets a failure status other than 401,
\* execute throws at once: no exchange, no retry, and the token slot is left
\* as it was.
C4_OtherFailureThrows ==
    [][\A c \in Calls :
          (/\ pc[c] = "fetch"
           /\ pc'[c] # "fetch"
           /\ LastSent(c)'.status \notin {200, 401})
          => /\ pc'[c] = "done"
             /\ outcome'[c].kind = "throw"
             /\ outcome'[c].error.url = LastSent(c).url
             /\ outcome'[c].error.status = LastSent(c)'.status
             /\ outcome'[c].error.statusText = "Internal Server Error"
             /\ token' = token
             /\ nAuth' = nAuth
             /\ Len(sent'[c]) = Len(sent[c])]_vars

C4_Witness ==
    \E c \in Calls :
        /\ pc[c] = "done"
        /\ Len(sent[c]) = 1
        /\ Sent(c, 1).status = 500
        /\ outcome[c].kind = "throw"

\* C5: when execute starts with no cached token and the exchange fails, it
\* throws 'Could not authenticate with API' and that invocation dispatches no
\* HTTP call and records nothing in the rate window.
C5_PreflightFailureThrows ==
    \A c \in Calls :
        (/\ pc[c] = "done"
         /\ call[c].phase = "pre"
         /\ ExchangeFailed(c))
        => /\ outcome[c].kind = "throw"
           /\ outcome[c].error.text = "Could not authenticate with API"
           /\ Len(sent[c]) = (IF call[c].is_retry THEN 1 ELSE 0)
           /\ call[c].recs = Len(sent[c])

C5_Witness ==
    \E c \in Calls :
        /\ pc[c] = "done"
        /\ call[c].phase = "pre"
        /\ ~call[c].is_retry
        /\ ExchangeFailed(c)
        /\ outcome[c].error.text = "Could not authenticate with API"
        /\ Len(sent[c]) = 0

\* call c has received no 401
No401(c) == \A j \in 1 .. Len(sent[c]) : Sent(c, j).status # 401

\* the authorization header '<token_type> <access_token>' of token t
HeaderOf(t) == <<t.token_type, t.access_token>>

\* C6 as stated: a call that begins with a token cached by a successful
\* exchange and receives no 401 makes no exchange and dispatches with the
\* header of that token.
C6_SameTokenAlways ==
    \A c \in Calls : \A k \in 1 .. Len(sent[c]) :
        (call[c].tok0 # NoToken /\ No401(c))
        => /\ nAuth[c] = 0
           /\ Sent(c, k).authorization = HeaderOf(call[c].tok0)

\* C6: a call that begins with a token cached by a successful exchange and
\* receives no 401 makes no exchange; it dispatches with the header of that
\* token unless the exchange of another call has rewritten the slot since the
\* call began, and then with the header built from what the slot holds at the
\* dispatch, 'undefined undefined' when the slot was cleared.
C6_SameTokenUnlessRewritten ==
    \A c \in Calls : \A k \in 1 .. Len(sent[c]) :
        (call[c].tok0 # NoToken /\ No401(c))
        => /\ nAuth[c] = 0
           /\ ~Sent(c, k).disturbed
              => Sent(c, k).authorization = HeaderOf(call[c].tok0)
           /\ Sent(c, k).disturbed
              => Sent(c, k).authorization =
                    (IF Sent(c, k).slot = NoToken
                     THEN <<"undefined", <<"undefined", 0, 0>>>>
                     ELSE HeaderOf(Sent(c, k).slot))

C6_Witness ==
    \E c \in Calls :
        /\ call[c].tok0 # NoToken
        /\ pc[c] = "done"
        /\ Len(sent[c]) = 1
        /\ Sent(c, 1).status = 200
        /\ ~Sent(c, 1).disturbed
        /\ Sent(c, 1).authorization = HeaderOf(call[c].tok0)

\* C7: whenever the exchange fails, by a non-OK answer or by an OK answer
\* without access token, authenticate returns false and no token is cached
\* when it returns.
C7_FailureClearsToken ==
    \A c \in Calls :
        (pc[c] = "auth_ret" /\ ExchangeFailed(c))
        => /\ ~call[c].result
           /\ call[c].after = NoToken

\* C8: authenticate returns true exactly when the answer is OK and carries an
\* access token, and exactly then the slot is replaced by the token of that
\* answer; otherwise the slot keeps its token or is emptied.
C8_TrueIffTokenStored ==
    \A c \in Calls :
        pc[c] = "auth_ret"
        => LET r == call[c].response
           IN  /\ call[c].result <=> (r.ok /\ r.body.access_token # MissingAccess)
               /\ call[c].result => call[c].after = r.body
               /\ ~call[c].result => call[c].after \in {call[c].before, NoToken}

C8_Witness ==
    \E c \in Calls :
        /\ pc[c] = "auth_ret"
        /\ call[c].result
        /\ call[c].before # NoToken
        /\ call[c].after = call[c].response.body
        /\ call[c].after # call[c].before

\* the credential pair a token was issued to
IssuedTo(t) == t.access_token[1]

\* C9: one token slot serves every instance: a call that begins while a token
\* is cached, whoever obtained it, makes no exchange before its first HTTP
\* call; a successful exchange puts the token of the caller's credentials in
\* the slot whatever it held; and every HTTP call carries the token the slot
\* holds when it is dispatched.
C9_SlotShared ==
    \A c \in Calls :
        /\ (pc[c] # "idle" /\ call[c].tok0 # NoToken)
           => IF Len(sent[c]) = 0 THEN nAuth[c] = 0 ELSE Sent(c, 1).auths = 0
        /\ (pc[c] = "auth_ret" /\ call[c].result)
           => /\ call[c].after = call[c].response.body
              /\ IssuedTo(call[c].after) = call[c].inst
        /\ \A k \in 1 .. Len(sent[c]) :
              Sent(c, k).slot # NoToken
              => Sent(c, k).authorization = HeaderOf(Sent(c, k).slot)

\* a request of one instance went out with a token obtained with the
\* credentials of the other, without an exchange of its own
C9_Witness ==
    \E c \in Calls :
        /\ Len(sent[c]) >= 1
        /\ nAuth[c] = 0
        /\ Sent(c, 1).slot # NoToken
        /\ IssuedTo(Sent(c, 1).slot) # call[c].inst
        /\ Sent(c, 1).authorization[2][1] # call[c].inst

\* C10: requestCount is the number of cache.set calls made in the last stdTTL
\* seconds, whatever their request descriptors and dates, and 0 once all of
\* them have expired.
C10_CountIsRecorded ==
    requestCount = BagCardinality(recorded)

\* the cache.set calls made by the calls of S
RECURSIVE SumRecs(_)
SumRecs(S) ==
    IF S = {} THEN 0
    ELSE LET c == CHOOSE x \in S : TRUE
         IN  call[c].recs + SumRecs(S \ {c})

\* C11: every HTTP call is preceded in its invocation by exactly one insertion
\* into the rate window, and every inserted entry is counted, whatever the
\* answer to the HTTP call: a call retried after a 401 accounts for two.
C11_EveryDispatchCounted ==
    /\ \A c \in Calls :
          call[c].recs = Len(sent[c]) + (IF pc[c] = "set" THEN 1 ELSE 0)
    /\ requestCount = earlier + SumRecs(Calls)

\* the current invocation of call c paused before it recorded
Paused(c) == call[c].wakeAt > 0

\* C12: the rate check is a soft backoff: an invocation pauses exactly when the
\* count it read is 245 or more, the pause lasts 100 ms, after it the request
\* is recorded whatever the window holds, and no call is refused or held back
\* by the rate window.
C12_SoftBackoff ==
    \A c \in Calls :
        /\ pc[c] = "count" => ENABLED CountReturn(c)
        /\ pc[c] = "sleep"
           => /\ call[c].n >= 245
              /\ call[c].wakeAt <= now + 100
              /\ ENABLED SleepReturn(c)
        /\ pc[c] \in {"set", "fetch"}
           => /\ Paused(c) <=> call[c].n >= 245
              /\ Paused(c) => now >= call[c].wakeAt
              /\ call[c].recs = Len(sent[c]) + (IF pc[c] = "set" THEN 1 ELSE 0)
        /\ pc[c] = "set" => ENABLED Dispatch(c)
        /\ outcome[c].kind = "throw"
           => outcome[c].error.text
                 \in {"Could not authenticate with API", "url [status] statusText"}

C12_Witness ==
    \E c \in Calls :
        /\ pc[c] = "fetch"
        /\ Paused(c)
        /\ call[c].n >= 245
        /\ now >= 100
        /\ BagCardinality(recorded) > call[c].n + 1

\* C13: the rate check and the insertion are separate steps and nothing caps
\* the window: every invocation that passed the check inserts, on the count it
\* read earlier, so that the window holds all the insertions of all the calls,
\* beyond requestLimit too.
C13_WindowNotCapped ==
    /\ BagCardinality(recorded) = earlier + SumRecs(Calls)
    /\ \A c \in Calls :
          (pc[c] \in {"set", "fetch"} /\ ~Paused(c))
          => /\ call[c].n < 245
             /\ BagCardinality(recorded) >= call[c].n + 1

\* more than requestLimit attempts recorded within one window
C13_Witness ==
    /\ BagCardinality(recorded) > 250
    /\ requestCount > 250

\* two calls have read the same count below the threshold and neither has
\* inserted yet
C13_RaceWitness ==
    \E c, d \in Calls :
        /\ c # d
        /\ pc[c] = "count"
        /\ pc[d] = "count"
        /\ call[c].n = call[d].n
        /\ call[c].n < 245
        /\ call[c].n = requestCount

\* the model method is a list method that has been called
Listing == caller.kind = "list" /\ caller.pc # "idle"

\* it runs in fetch-all mode
FetchAll == Listing /\ Get(caller.options, "all")

\* the object the k-th request of the model method carries
CarriedBy(k) == Carried(caller.m, caller.requests[k])

\* the results of the first n bodies, one page after the other
RECURSIVE Concatenated(_, _)
Concatenated(bodies, n) ==
    IF n = 0 THEN <<>>
    ELSE Concatenated(bodies, n - 1) \o bodies[n].results

\* the sizes of the pages received
Sizes == [k \in 1 .. Len(caller.bodies) |-> Len(caller.bodies[k].results)]

\* C14: fetch-all requests the pages 0, 1, 2, ... in this order and one at a
\* time, at least page 0, stops at the first page with isLastPage, and returns
\* the results of the pages concatenated in page order; pages of 100, 100 and
\* 37 records with totalCount 237 give 237 results.
C14_PagesInOrder ==
    FetchAll
    => /\ Len(caller.requests) >= 1
       /\ \A k \in 1 .. Len(caller.requests) :
             Get(CarriedBy(k), caller.m.pageKey) = k - 1
       /\ Len(caller.bodies) \in {Len(caller.requests) - 1, Len(caller.requests)}
       /\ caller.pc = "wait" => Len(caller.bodies) = Len(caller.requests) - 1
       /\ \A k \in 1 .. Len(caller.bodies) :
             /\ caller.bodies[k].isLastPage => k = Len(caller.requests)
             /\ \A j \in 1 .. Len(caller.bodies[k].results) :
                   caller.bodies[k].results[j] = <<k - 1, j>>
       /\ caller.returned.kind = "return"
          => /\ caller.bodies[Len(caller.bodies)].isLastPage
             /\ caller.returned.results =
                   Concatenated(caller.bodies, Len(caller.bodies))
       /\ (/\ caller.pc = "done"
           /\ Sizes = <<100, 100, 37>>
           /\ caller.bodies[3].isLastPage
           /\ caller.bodies[3].totalCount = 237)
          => /\ caller.returned.kind = "return"
             /\ Len(caller.returned.results) = 237
             /\ caller.returned.results[101] = <<1, 1>>
             /\ caller.returned.results[237] = <<2, 37>>

C14_Witness ==
    /\ FetchAll
    /\ caller.pc = "done"
    /\ Sizes = <<100, 100, 37>>
    /\ caller.bodies[3].isLastPage
    /\ caller.bodies[3].totalCount = 237
    /\ caller.returned.kind = "return"
    /\ Len(caller.returned.results) = 237

\* every page request of the listing was answered with a page
AllPagesServed == Len(caller.bodies) = Len(caller.requests)

\* C15: fetch-all never returns a list whose length differs from the
\* totalCount of the last page: it throws 'Could not fetch all results', an
\* error that is raised only after every page request succeeded and that is
\* neither the authentication error nor the HTTP error of execute.
C15_CountChecked ==
    (FetchAll /\ caller.pc = "done")
    => LET last == caller.bodies[Len(caller.bodies)]
       IN  /\ caller.returned.kind = "return"
              => Len(caller.returned.results) = last.totalCount
           /\ (AllPagesServed /\ Len(caller.results) # last.totalCount)
              => /\ caller.returned.kind = "throw"
                 /\ caller.returned.error.text = "Could not fetch all results"
           /\ (/\ caller.returned.kind = "throw"
               /\ caller.returned.error.text = "Could not fetch all results")
              => /\ AllPagesServed
                 /\ outcome[Slot].kind = "return"
                 /\ caller.returned.error # AuthError
                 /\ caller.returned.error.status = 0

C15_Witness ==
    /\ FetchAll
    /\ caller.pc = "done"
    /\ AllPagesServed
    /\ Len(caller.results) = 200
    /\ caller.bodies[Len(caller.bodies)].totalCount = 237
    /\ caller.returned.error.text = "Could not fetch all results"

\* C16: with all = false a list method makes one request, with the page index
\* and the limit of the caller, and returns the results of that page whatever
\* its isLastPage and totalCount.
C16_SinglePage ==
    (Listing /\ ~Get(caller.options, "all"))
    => /\ Len(caller.requests) = 1
       /\ Has(caller.given, "page")
          => Get(CarriedBy(1), caller.m.pageKey) = Get(caller.given, "page")
       /\ (Has(caller.given, "limit") /\ caller.m.hasLimit)
          => Get(CarriedBy(1), caller.m.limitKey) = Get(caller.given, "limit")
       /\ (caller.pc = "done" /\ outcome[Slot].kind = "return")
          => /\ caller.returned.kind = "return"
             /\ caller.returned.results = caller.bodies[1].results

C16_Witness ==
    /\ Listing
    /\ caller.given = {<<"all", FALSE>>, <<"page", 2>>, <<"limit", 10>>}
    /\ caller.pc = "done"
    /\ Len(caller.requests) = 1
    /\ Len(caller.bodies) = 1
    /\ ~caller.bodies[1].isLastPage
    /\ caller.bodies[1].totalCount # Len(caller.bodies[1].results)
    /\ caller.returned.kind = "return"
    /\ Len(caller.returned.results) = 37

\* what the caller passed, without its page and limit
GivenWithoutPaging == {p \in caller.given : p[1] \notin {"page", "limit"}}

\* C17: in fetch-all every page request carries the internal page index,
\* counted from 0, and the fixed page size of the endpoint, and neither the
\* page nor the limit of the caller reaches the remote service: the request
\* is the one the method makes for a caller who passed neither.
C17_CallerPagingOverridden ==
    FetchAll
    => \A k \in 1 .. Len(caller.requests) :
          /\ Get(CarriedBy(k), caller.m.pageKey) = k - 1
          /\ caller.m.hasLimit
             => Get(CarriedBy(k), caller.m.limitKey) = caller.m.size
          /\ CarriedBy(k) =
                PageObject(caller.m, Defaults(caller.m, GivenWithoutPaging), k - 1)

\* the requests a list method makes in fetch-all mode and with all = false
IsPageRequest(k) ==
    /\ Get(CarriedBy(k), caller.m.pageKey) = k - 1
    /\ caller.m.hasLimit => Get(CarriedBy(k), caller.m.limitKey) = caller.m.size

IsCallersRequest ==
    /\ Get(CarriedBy(1), caller.m.pageKey) =
          (IF Has(caller.given, "page") THEN Get(caller.given, "page") ELSE 0)
    /\ caller.m.hasLimit
       => Get(CarriedBy(1), caller.m.limitKey) =
             (IF Has(caller.given, "limit") THEN Get(caller.given, "limit")
              ELSE caller.m.limit)

\* C18: fetch-all is the default: a list method called without all, with or
\* without page and limit, requests page 0 with the fixed page size and goes
\* on to the following pages; the page and the limit of the caller are used
\* only when all is false.
C18_FetchAllByDefault ==
    Listing
    => /\ (~Has(caller.given, "all") \/ Get(caller.given, "all"))
          => /\ Get(caller.options, "all")
             /\ \A k \in 1 .. Len(caller.requests) : IsPageRequest(k)
       /\ (Has(caller.given, "all") /\ ~Get(caller.given, "all"))
          => /\ Len(caller.requests) = 1
             /\ IsCallersRequest

C18_Witness ==
    /\ Listing
    /\ caller.given = {<<"page", 2>>, <<"limit", 10>>}
    /\ Len(caller.requests) = 2
    /\ Get(CarriedBy(1), caller.m.pageKey) = 0
    /\ Get(CarriedBy(2), caller.m.pageKey) = 1

\* the model method is a relationship operation that has returned
Related == caller.kind = "relation" /\ caller.pc = "done"

\* C19: a relationship operation never throws; it returns true exactly when
\* its request succeeded and false after every failure of execute: the
\* authentication error, an HTTP failure, a 401 on the retried request.
C19_RelationReturnsBoolean ==
    Related
    => /\ caller.returned.kind = "return"
       /\ caller.returned.flag
          <=> (Len(sent[Slot]) >= 1 /\ LastSent(Slot).status = 200)
       /\ outcome[Slot].kind = "throw" => ~caller.returned.flag
       /\ caller.updated => caller.returned.flag

C19_Witness ==
    /\ Related
    /\ Len(sent[Slot]) = 2
    /\ Sent(Slot, 2).status = 401
    /\ outcome[Slot].kind = "throw"
    /\ caller.returned.kind = "return"
    /\ ~caller.returned.flag

\* C20: when a page request fails during fetch-all, the error thrown by
\* execute leaves the list method as it is: nothing is returned and no
\* further page is requested.
C20_PageFailurePropagates ==
    (FetchAll /\ pc[Slot] = "done" /\ outcome[Slot].kind = "throw")
    => /\ Len(caller.bodies) = Len(caller.requests) - 1
       /\ caller.pc = "done"
          => /\ caller.returned.kind = "throw"
             /\ caller.returned.error = outcome[Slot].error
             /\ caller.returned.results = <<>>
             /\ ~ENABLED ListResume

C20_Witness ==
    /\ FetchAll
    /\ caller.pc = "done"
    /\ Len(caller.bodies) = 1
    /\ Len(caller.requests) = 2
    /\ outcome[Slot].kind = "throw"
    /\ caller.returned.error = outcome[Slot].error
    /\ caller.returned.error.status = 500

(* ----------------------- bodies and query strings ---------------------- *)

\* requests execute could be handed that none of the verbs builds: a GET and
\* a DELETE with a payload
WithPayload ==
    { [method |-> v, endpoint |-> "/e", params |-> {}, payload |-> "q"] :
         v \in {"GET", "DELETE"} }

\* C21: execute sends the payload as the body only of a POST, PUT or PATCH; a
\* GET or DELETE goes without a body whatever payload it was handed; get and
\* delete pass the caller's object as query parameters and no payload, post
\* and put pass it as payload with an empty set of query parameters.
C21_BodyByMethod ==
    /\ \A r \in WithPayload : JsonBody(r) = Undefined
    /\ \A k \in 1..Len(sent[Slot]) :
          LET d == Sent(Slot, k)
              r == call[Slot].req
          IN  /\ d.method = r.method
              /\ d.method \in {"PATCH", "POST", "PUT"}
                 => /\ d.json = r.payload
                    /\ r.params = {}
                    /\ d.url[3] = {}
              /\ d.method \in {"GET", "DELETE"}
                 => /\ d.json = Undefined
                    /\ r.payload = Undefined
                    /\ d.url[3] = QueryString(r.params)
              /\ (caller.kind = "relation" /\ d.method = "DELETE")
                 => r.params = caller.op.params
              /\ (caller.kind = "relation" /\ d.method # "DELETE")
                 => r.payload = caller.op.payload
              /\ (caller.kind = "list" /\ ~Get(caller.options, "all"))
                 => IF d.method = "GET"
                    THEN r.params = caller.options
                    ELSE caller.options \subseteq r.payload

C21_Witness ==
    /\ caller.kind = "relation"
    /\ caller.op.name = "Router.assign_config"
    /\ Len(sent[Slot]) = 2
    /\ Sent(Slot, 1).method = "PUT"
    /\ Sent(Slot, 1).json = "configId"
    /\ Sent(Slot, 2).json = "configId"
    /\ Sent(Slot, 2).url[3] = {}

\* a DELETE carried the caller's options in its query string and no body
C21_DeleteWitness ==
    /\ caller.kind = "relation"
    /\ caller.op.name = "Account.remove_service_line"
    /\ Len(sent[Slot]) = 1
    /\ Sent(Slot, 1).url[3] = {<<"reasonForCancellation", ToString("r")>>}
    /\ Sent(Slot, 1).json = Undefined

(* --------------------------- the replayed request ---------------------- *)

\* the retry dispatches the method, URL (endpoint and query string) and body
\* of the first dispatch
C22_SameRequestReplayed ==
    \A c \in Calls :
       Len(sent[c]) = 2
       => /\ Sent(c, 2).retry /\ ~Sent(c, 1).retry
          /\ Sent(c, 2).method = Sent(c, 1).method
          /\ Sent(c, 2).url = Sent(c, 1).url
          /\ Sent(c, 2).json = Sent(c, 1).json
          /\ Sent(c, 2).auths > Sent(c, 1).auths

\* C22: the retry after a 401 replays the identical request (same method,
\* endpoint, query parameters and payload) and differs only in the
\* authorization header, which is built from the token cached after the
\* re-authentication.
C22_RetryReplays ==
    /\ C22_SameRequestReplayed
    /\ \A c \in Calls :
          Len(sent[c]) = 2
          => /\ Sent(c, 2).slot # NoToken
             /\ Sent(c, 2).authorization = HeaderOf(Sent(c, 2).slot)

(* ------------------- single-item against list fetches ------------------ *)

\* the object the single-item fetch made of record i equals element i of the
\* list; the list method throws when the single-item fetch of one of its
\* records does
SameAsListed(listed, i) ==
    /\ listed.thrown => \E j \in 1..Len(fetched.served) :
                           Threw(fetched.kind,
                                 MapSingle(fetched.kind, fetched.served[j]))
    /\ ~listed.thrown
       => /\ ~Threw(fetched.kind, fetched.single[i])
          /\ Len(listed.items) = Len(fetched.served)
          /\ listed.items[i] = fetched.single[i]

\* C23: a single-item fetch (fetch_service_line, fetch_subscription,
\* fetch_router_config, fetch_address) produces an object equal to the
\* element of the list fetch for the same record, with the list fetched page
\* by page or as a single page: the account number is injected, the dates are
\* converted and routerConfigJson is parsed alike on every path.
C23_SingleEqualsListed ==
    \A i \in 1..Len(fetched.single) :
       /\ fetched.page.called => SameAsListed(fetched.page, i)
       /\ fetched.all.called => SameAsListed(fetched.all, i)
       /\ fetched.kind = "service_line"
          => /\ Get(fetched.single[i], "accountNumber") = accountNumber
             /\ Get(fetched.served[i], "startDate") # Null
                => Get(fetched.single[i], "startDate") =
                      NewDate(Get(fetched.served[i], "startDate"))

C23_Witness ==
    /\ fetched.kind = "service_line"
    /\ Len(fetched.single) = 2
    /\ fetched.page.called /\ fetched.all.called
    /\ Get(fetched.served[1], "startDate") = String(1)
    /\ Get(fetched.served[1], "endDate") = Null
    /\ fetched.all.items[1] = fetched.single[1]
    /\ fetched.page.items[2] = fetched.single[2]
    /\ Get(fetched.single[1], "startDate") = NewDate(String(1))
    /\ Get(fetched.single[1], "endDate") = Null

\* a router configuration whose routerConfigJson was parsed on both paths
C23_ParsedWitness ==
    /\ fetched.kind = "router_config"
    /\ Len(fetched.single) = 1
    /\ fetched.all.called /\ ~fetched.all.thrown
    /\ Get(fetched.single[1], "routerConfig") = {<<"a", String(1)>>}
    /\ fetched.all.items[1] = fetched.single[1]
    /\ ~Has(fetched.single[1], "routerConfigJson")

(* ------------------------- the timeout of handle ----------------------- *)

\* C24: a handle call with a timeout of N > 0 milliseconds is aborted through
\* the signal of its controller when it has not completed N milliseconds
\* after it started, and not before; a call without timeout (undefined or 0)
\* is never aborted by the client.
C24_AbortedAfterTimeout ==
    \A i \in 1..Len(grpc.calls) :
       LET h == grpc.calls[i]
       IN  /\ (h.timeout.defined /\ h.timeout.ms > 0)
              => /\ (h.pc = "awaiting" /\ ~h.aborted)
                    => /\ grpc.clock <= h.started + h.timeout.ms
                       /\ h.timer = "pending"
                       /\ grpc.clock = h.started + h.timeout.ms
                          => ENABLED TimerFires(i)
                 /\ h.aborted => grpc.clock >= h.started + h.timeout.ms
                 /\ h.pc = "aborted" => h.ended >= h.started + h.timeout.ms
           /\ (~h.timeout.defined \/ h.timeout.ms = 0)
              => /\ ~h.aborted
                 /\ h.timer = "none"
                 /\ h.pc # "aborted"

C24_Witness ==
    /\ Len(grpc.calls) = 2
    /\ grpc.timeout = Ms(1)
    /\ grpc.calls[1].timeout = Ms(2)
    /\ grpc.calls[1].pc = "aborted"
    /\ grpc.calls[1].ended = grpc.calls[1].started + 2
    /\ grpc.calls[2].timeout = Ms(0)
    /\ grpc.calls[2].pc = "awaiting"
    /\ grpc.clock = MaxElapsed

(* --------------------------- ServiceLine.save -------------------------- *)

Issued(k) == line.save.issued[k]

LastIssued == Issued(Len(line.save.issued))

SaveReturned == line.save.pc = "done" /\ line.fresh

\* C25: save issues a PUT only for a field whose flag is set, in the order
\* nickname, product, public-ip, each after the previous one returned; it
\* stops at the first PUT that fails and returns false without the PUTs that
\* remain; called with no flag set it issues no request and returns false.
C25_SaveWritesDirtyInOrder ==
    /\ \A k \in 1..Len(line.save.issued) : Issued(k).dirty
    /\ \A k, m \in 1..Len(line.save.issued) :
          k < m => Position(Issued(k).field) < Position(Issued(m).field)
    /\ Saving => /\ Len(line.save.issued) >= 1
                 /\ LastIssued.field = line.save.pc
                 /\ line.save.returned = "none"
    /\ line.save.failedAt # ""
       => /\ line.save.pc = "done"
          /\ line.save.returned = "false"
          /\ LastIssued.field = line.save.failedAt
    /\ (line.save.cleanAtCall /\ line.save.pc # "idle")
       => /\ line.save.issued = <<>>
          /\ line.save.pc = "done"
          /\ line.save.returned = "false"

C25_Witness ==
    /\ SaveReturned
    /\ ~line.save.interfered
    /\ line.save.returned = "false"
    /\ Len(line.save.issued) = 2
    /\ Issued(1).field = "nickname"
    /\ Issued(2).field = "product"
    /\ line.save.failedAt = "product"
    /\ line.flags["public-ip"]

\* save returned true with every PUT it issued succeeded: the record is the
\* content of the last response with the account number kept
SavedAll ==
    /\ line.save.returned = "true"
    /\ line.save.failedAt = ""
    /\ Len(line.save.issued) >= 1
    /\ line.save.replaced
    /\ line.record = SavedRecord(line.save.response, accountNumber)
    /\ line.save.response = line.server

\* C26: when save returns true all three flags are false and the record is
\* the content of the last successful PUT response with the account number it
\* had; save returns true exactly when it issued at least one PUT and every
\* PUT it issued succeeded.
C26_TrueMeansAllSaved ==
    SaveReturned
    => /\ line.save.returned = "true"
          => /\ SavedAll
             /\ \A f \in FieldSet : ~line.flags[f]
       /\ line.save.returned = "true"
          <=> (Len(line.save.issued) >= 1 /\ line.save.failedAt = "")

\* the same of a save during which no setter ran
C26_WhenUndisturbed ==
    (SaveReturned /\ ~line.save.interfered)
    => /\ line.save.returned = "true"
          => /\ SavedAll
             /\ \A f \in FieldSet : ~line.flags[f]
       /\ line.save.returned = "true"
          <=> (Len(line.save.issued) >= 1 /\ line.save.failedAt = "")

\* save failed at a field: the flags of the fields written before it are
\* cleared, its own is set and the record was not replaced
FailedAt(f) ==
    /\ line.save.returned = "false"
    /\ \A k \in 1..(Len(line.save.issued) - 1) : ~line.flags[Issued(k).field]
    /\ line.flags[f]
    /\ ~line.save.replaced
    /\ NextDirty(line.flags, 1) = Position(f)

\* C27: when save fails at a field, the flags of the fields it saved before
\* are cleared, the flags of the failing and the later fields stay set and
\* the record is not replaced by any response; a later save sends the failing
\* and the later fields only.
C27_FailureKeepsRest ==
    (SaveReturned /\ line.save.failedAt # "") => FailedAt(line.save.failedAt)

\* the same of a save during which no setter ran
C27_WhenUndisturbed ==
    (SaveReturned /\ line.save.failedAt # "" /\ ~line.save.interfered)
    => FailedAt(line.save.failedAt)

\* C28: a setter always stores the value; it sets its flag when the value
\* differs from the one held and leaves the flag as it is otherwise, so that
\* A -> B -> A leaves the flag set; a flag is cleared by a successful PUT of
\* its field in save and by nothing else.
C28_SetterFlags ==
    [][ /\ \A f \in FieldSet : \A value \in Values(f) :
              Set(f, value)
              => /\ line'.record[RecordKey(f)] = value
                 /\ line'.flags[f] <=>
                       (line.flags[f] \/ value # line.record[RecordKey(f)])
                 /\ \A g \in FieldSet \ {f} : line'.flags[g] = line.flags[g]
        /\ \A f \in FieldSet :
              (line.flags[f] /\ ~line'.flags[f])
              => /\ line.save.pc = f
                 /\ line'.save.hasResponse
                 /\ line'.server[RecordKey(f)] = line.save.body[RecordKey(f)]
      ]_vars

C28_Witness ==
    /\ line.save.pc = "idle"
    /\ line.flags["nickname"]
    /\ line.record.nickname = "A"
    /\ line.server.nickname = "A"
    /\ ~line.flags["product"]

\* C29: whenever no save is in progress and the flag of a field is false, the
\* record holds the value of the field the remote service acknowledged last,
\* after every sequence of setter and save calls, a setter called while save
\* awaits a PUT included.
C29_CleanMeansAcknowledged ==
    (~Saving /\ line.save.pc # "")
    => \A f \in FieldSet :
          ~line.flags[f] => line.record[RecordKey(f)] = line.server[RecordKey(f)]

(* ------------------- relationship operations: the record --------------- *)

\* C30: the relationship operations that keep a field of the record change
\* it only after the request succeeded: Router.assign_config sets configId,
\* UserTerminal.add_to_service_line sets serviceLineNumber and
\* remove_from_service_line sets it to null only when they return true; when
\* they return false the record is as it was.
C30_RecordChangedOnSuccess ==
    caller.kind = "relation"
    => /\ caller.pc = "wait" => caller.local = Previous
       /\ Related
          => /\ (caller.returned.flag /\ caller.op.updates)
                => /\ caller.local = caller.op.sets
                   /\ Len(sent[Slot]) >= 1
                   /\ LastSent(Slot).status = 200
             /\ ~caller.returned.flag => caller.local = Previous
             /\ ~caller.op.updates => caller.local = Previous
       /\ caller.op.name = "Router.assign_config" => caller.op.sets = "configId"
       /\ caller.op.name = "UserTerminal.add_to_service_line"
          => caller.op.sets = "serviceLineNumber"
       /\ caller.op.name = "UserTerminal.remove_from_service_line"
          => caller.op.sets = "null"

C30_Witness ==
    /\ Related
    /\ caller.op.name = "UserTerminal.remove_from_service_line"
    /\ Len(sent[Slot]) = 1
    /\ LastSent(Slot).status = 500
    /\ ~caller.returned.flag
    /\ caller.local = Previous

\* assign_config returned true after a retried request and configId is set
C30_AssignedWitness ==
    /\ Related
    /\ caller.op.name = "Router.assign_config"
    /\ Len(sent[Slot]) = 2
    /\ caller.returned.flag
    /\ caller.local = "configId"

(* --------------------------- Router.remove_config ---------------------- *)

ConfigSaveReturns == config.pc = "put" /\ config'.pc = "done"

\* C32: RouterConfig.save never throws. When it succeeds it returns true and
\* the record becomes the response of the remote service with routerConfig
\* parsed from routerConfigJson and routerConfigJson removed; on every
\* failure (the request fails, the JSON of the response cannot be parsed) it
\* returns false and the record, unsaved edits of nickname and config
\* included, is as it was.
C32_SaveNeverThrows ==
    [][ /\ config'.returned \in {"none", "true", "false"}
        /\ config'.pc = "done" => config'.returned \in {"true", "false"}
        /\ (ConfigSaveReturns /\ config'.returned = "true")
           => /\ config'.response # {}
              /\ ~Has(config'.record, "routerConfigJson")
              /\ Get(config'.record, "routerConfig") =
                    JSONparse(Get(config'.response, "routerConfigJson")[2])
              /\ Get(config'.record, "routerConfig") # SyntaxError
              /\ Without(config'.record, "routerConfig") =
                    Without(config'.response, "routerConfigJson")
        /\ (config.pc # "done" /\ config'.pc = "done"
              /\ config'.returned = "false")
           => config'.record = config.record
      ]_vars

\* the response could not be parsed: false, and the edits are kept
C32_Witness ==
    /\ config.pc = "done"
    /\ config.returned = "false"
    /\ config.response # {}
    /\ JSONparse(Get(config.response, "routerConfigJson")[2]) = SyntaxError
    /\ Get(config.record, "nickname") = String(2)
    /\ Get(config.record, "routerConfig") = {<<"a", String(1)>>}
    /\ Get(config.body, "nickname") = String(2)

(* ------------------ Account.update_default_router_config --------------- *)

OfThisAccount(results) ==
    \E i \in 1..Len(results) :
        Get(results[i], "accountNumber") = Get(account.before, "accountNumber")

\* C33: update_default_router_config returns true and replaces the record of
\* the account by a result exactly when the results of the response hold an
\* account with the account number of this account; otherwise it returns
\* false and the record is unchanged. When the request itself fails the call
\* throws, it does not return false, and the record is unchanged.
C33_TrueIffAccountInResults ==
    account.pc = "done" =>
        /\ account.returned \in {"true", "false", "threw"}
        /\ account.returned = "threw"
           => account.results = <<>> /\ account.record = account.before
        /\ account.returned = "true"
           => /\ OfThisAccount(account.results)
              /\ \E i \in 1..Len(account.results) :
                    /\ account.record = account.results[i]
                    /\ Get(account.results[i], "accountNumber") =
                          Get(account.before, "accountNumber")
                    /\ \A j \in 1..(i - 1) :
                          Get(account.results[j], "accountNumber") #
                             Get(account.before, "accountNumber")
        /\ account.returned = "false"
           => /\ ~OfThisAccount(account.results)
              /\ account.record = account.before

\* the record was replaced by the second result, the first being of another
\* account
C33_Witness ==
    /\ account.pc = "done"
    /\ account.returned = "true"
    /\ Len(account.results) = 2
    /\ Get(account.results[1], "accountNumber") = String(200)
    /\ account.record = account.results[2]
    /\ account.record # account.before

\* the request failed: the call threw
C33_ThrewWitness ==
    /\ account.pc = "done"
    /\ account.returned = "threw"
    /\ Get(account.before, "defaultRouterConfigId") = String(2)

(* ------------------------ the shared token slot ------------------------ *)

\* C34: every HTTP call is dispatched with an authorization header built from
\* a token that is cached when the headers are built: no call is dispatched
\* while the slot is empty, with the header 'undefined undefined'.
C34_NeverDispatchedWithoutToken ==
    \A c \in Calls : \A k \in 1 .. Len(sent[c]) :
        /\ Sent(c, k).slot # NoToken
        /\ Sent(c, k).authorization # <<"undefined", <<"undefined", 0, 0>>>>

\* the exchange whose answer call c processes in this step
Processes(c) == pc[c] = "auth" /\ pc'[c] = "auth_ret"

\* C35: token exchanges are not coalesced. Each call that begins while no
\* token is cached performs an exchange of its own, whatever exchanges are in
\* flight; the slot changes only when the answer of an exchange is processed,
\* and a successful exchange overwrites whatever the slot holds with its own
\* token, so that the token cached when all the calls have completed is the
\* one written by the exchange processed last.
C35_ExchangesNotCoalesced ==
    [][ /\ \A c \in Calls :
              (pc[c] = "idle" /\ pc'[c] # "idle" /\ token = NoToken)
              => /\ pc'[c] = "auth"
                 /\ nAuth'[c] = 1
        /\ \A c \in Calls :
              (Processes(c) /\ AuthResult(call'[c].response))
              => /\ token' = call'[c].response.body
                 /\ token'.access_token = <<call[c].inst, c, nAuth[c]>>
        /\ token' # token => \E c \in Calls : Processes(c)
      ]_vars

\* both calls began with no token cached and exchanged one each; the exchange
\* of the call that began first was processed last and its token is cached
C35_Witness ==
    /\ \A c \in Calls : /\ pc[c] = "done"
                        /\ call[c].tok0 = NoToken
                        /\ nAuth[c] = 1
                        /\ call[c].result
    /\ token = call[1].response.body
    /\ call[2].after = call[2].response.body
    /\ call[2].before = NoToken
    /\ call[1].before = call[2].response.body

\* C36: one top-level execute call performs at most two token exchanges, one
\* before its first dispatch at most and one after a 401 at most; the retried
\* invocation performs none.
C36_AtMostTwoExchanges ==
    \A c \in Calls :
        /\ nAuth[c] <= 2
        /\ \A k \in 1 .. Len(sent[c]) :
              Sent(c, k).retry => Sent(c, k).auths = Sent(c, 1).auths + 1

\* call d has been answered 401 and its re-authentication is in flight
Reauthenticating(d) == pc[d] = "auth" /\ call[d].phase = "refresh"

\* C37: on a 401 execute does not clear the cached token before it
\* re-authenticates: the step that receives the 401 leaves the slot as it is,
\* and the slot holds the rejected token until the answer of an exchange is
\* processed, so that a call that begins during the re-authentication makes
\* no pre-flight exchange and dispatches with the token the slot holds.
C37_RejectedTokenKept ==
    [][ /\ \A d \in Calls :
              (pc[d] = "fetch" /\ Reauthenticating(d)')
              => /\ token' = token
                 /\ sent'[d][Len(sent[d])].status = 401
        /\ \A d \in Calls :
              (Reauthenticating(d) /\ Reauthenticating(d)'
                 /\ ~(\E e \in Calls : Processes(e)))
              => token' = token
        /\ \A c, d \in Calls :
              (Reauthenticating(d) /\ LastSent(d).slot # NoToken
                 /\ token = LastSent(d).slot
                 /\ pc[c] = "idle" /\ pc'[c] # "idle")
              => /\ pc'[c] = "count"
                 /\ nAuth'[c] = 0
                 /\ call'[c].tok0 = LastSent(d).slot
        /\ \A c \in Calls :
              (pc[c] = "set" /\ pc'[c] = "fetch")
              => sent'[c][Len(sent'[c])].authorization = AuthHeader(token)
      ]_vars

\* a call began while the re-authentication of the other was in flight, made
\* no exchange and was dispatched with the token the 401 rejected, the
\* re-authentication still being in flight
C37_Witness ==
    \E c, d \in Calls :
        /\ c # d
        /\ Reauthenticating(d)
        /\ LastSent(d).status = 401
        /\ LastSent(d).slot # NoToken
        /\ call[c].amid
        /\ nAuth[c] = 0
        /\ Len(sent[c]) = 1
        /\ Sent(c, 1).slot = LastSent(d).slot
        /\ Sent(c, 1).authorization = HeaderOf(LastSent(d).slot)
        /\ token = LastSent(d).slot

(* ------------------------ termination of fetch-all --------------------- *)

\* a page request of the listing threw
PageRequestThrew == caller.pc = "done" /\ outcome[Slot].kind = "throw"

C38_ThrewWitness ==
    /\ FetchAll
    /\ PageRequestThrew
    /\ Len(caller.requests) = 2
    /\ Len(caller.bodies) = 1
    /\ caller.returned.kind = "throw"

(* ----------------------- timers of finished calls ---------------------- *)

\* handle call i has completed: it returned or threw
Completed(i) == grpc.calls[i].pc \in {"returned", "failed", "aborted"}

\* C39: after a handle call has completed, whether it returned or threw, no
\* timeout timer of that call is pending: its controller is never aborted
\* after the call has finished.
C39_NoTimerAfterCompletion ==
    \A i \in 1..Len(grpc.calls) :
        Completed(i)
        => /\ grpc.calls[i].timer # "pending"
           /\ ~ENABLED TimerFires(i)
           /\ grpc.calls[i].pc = "failed" => ~grpc.calls[i].aborted

====
